---- MODULE Spec2Model ----
(***************************************************************************)
(* Region-containment filters of the demomaps2 repository:                 *)
(*   - GeoUtils.findPointsInCircle / GeoUtils.haversineDistance (Java,     *)
(*     src/README.md lines 284-374) and its JUnit tests;                    *)
(*   - MapInteraction.onCreated / onDeleted (Leaflet, MapContainer.tsx).    *)
(*                                                                         *)
(* A Java/JavaScript double is modelled as a decimal floating-point number *)
(* [k |-> "fin", m |-> mantissa, e |-> exponent] of value m * 10^e with an  *)
(* eight-digit mantissa (Lo <= |m| < Hi, or m = 0 and e = 0), or as one of  *)
(* the non-finite values NaN, +Infinity, -Infinity.  Every arithmetic      *)
(* operation truncates its exact result to eight significant digits.       *)
(***************************************************************************)
EXTENDS Integers, Sequences, FiniteSets, TLC

\* ------------------------------------------------------------------------
\* double arithmetic
\* ------------------------------------------------------------------------
B  == 10 * 1000                 \* half-mantissa limb
Lo == 1000 * B                  \* smallest normalised mantissa, 10^7
Hi == B * B                     \* mantissa bound, 10^8

Abs(n) == IF n < 0 THEN -n ELSE n
Sgn(n) == IF n < 0 THEN -1 ELSE IF n > 0 THEN 1 ELSE 0
\* integer division truncating towards zero, as Java's and JavaScript's do
Quot(n, d) == Sgn(n) * Sgn(d) * (Abs(n) \div Abs(d))

NaN    == [k |-> "nan", m |-> 0, e |-> 0]
PosInf == [k |-> "inf", m |-> 1, e |-> 0]
NegInf == [k |-> "inf", m |-> -1, e |-> 0]
Zero   == [k |-> "fin", m |-> 0, e |-> 0]

isFinite(x) == x.k = "fin"

\* 10^k for k in 0..9
Pow10(k) == <<1, 10, 100, 1000, B, 10 * B, 100 * B, Lo, Hi, 10 * Hi>>[k + 1]

\* the number of decimal digits of n > 0 (n < 2^31)
Digits[n \in Int] ==
    IF n >= 100000
    THEN (IF n >= 10000000
          THEN (IF n >= 1000000000 THEN 10 ELSE IF n >= 100000000 THEN 9 ELSE 8)
          ELSE (IF n >= 1000000 THEN 7 ELSE 6))
    ELSE (IF n >= 100
          THEN (IF n >= 10000 THEN 5 ELSE IF n >= 1000 THEN 4 ELSE 3)
          ELSE (IF n >= 10 THEN 2 ELSE 1))

\* m * 10^e with the d-digit mantissa m # 0 cut or padded to eight digits
Scale[m \in Int, e \in Int, d \in Int] ==
    IF d > 8
    THEN [k |-> "fin", m |-> Quot(m, Pow10(d - 8)), e |-> e + (d - 8)]
    ELSE [k |-> "fin", m |-> m * Pow10(8 - d), e |-> e - (8 - d)]

\* the double of value m * 10^e, for any integer m below 2^31 in magnitude
Norm(m, e) == IF m = 0 THEN Zero ELSE Scale[m, e, Digits[Abs(m)]]

\* a literal: n * 10^e
Dbl(n, e) == Norm(n, e)

\* the doubles.  The arithmetic below is written as functions over them, so
\* that an argument is evaluated once, before the function is applied.
Double == [k : {"fin", "nan", "inf"}, m : Int, e : Int]

neg[x \in Double] == IF x.k = "nan" THEN NaN ELSE [x EXCEPT !.m = -x.m]

\* m / 10^d truncated, d >= 0
ShiftRight(m, d) == IF d > 9 THEN 0 ELSE Quot(m, Pow10(d))

\* x + y
add[x \in Double, y \in Double] ==
    IF x.k = "nan" \/ y.k = "nan" THEN NaN
    ELSE IF x.k = "inf" /\ y.k = "inf" THEN (IF x.m = y.m THEN x ELSE NaN)
    ELSE IF x.k = "inf" THEN x
    ELSE IF y.k = "inf" THEN y
    ELSE IF x.m = 0 THEN y
    ELSE IF y.m = 0 THEN x
    ELSE IF x.e >= y.e
         THEN Norm(x.m * 10 + ShiftRight(y.m * 10, x.e - y.e), x.e - 1)
         ELSE Norm(y.m * 10 + ShiftRight(x.m * 10, y.e - x.e), y.e - 1)

\* x - y
sub[x \in Double, y \in Double] == add[x, neg[y]]

\* the leading digits of the product of two normalised mantissas: the exact
\* product (below 10^16) divided by 10^7, computed in limbs below 2^31
MulMant(a, b) ==
    LET ah == a \div B
        al == a % B
        bh == b \div B
        bl == b % B
    IN  10 * ah * bh + ((10 * (ah * bl + al * bh) + ((al * bl) \div 1000)) \div B)

\* x * y
mul[x \in Double, y \in Double] ==
    IF x.k = "nan" \/ y.k = "nan" THEN NaN
    ELSE IF x.k = "inf" \/ y.k = "inf"
         THEN (IF Sgn(x.m) * Sgn(y.m) = 0 THEN NaN
               ELSE IF Sgn(x.m) * Sgn(y.m) > 0 THEN PosInf ELSE NegInf)
    ELSE IF x.m = 0 \/ y.m = 0 THEN Zero
    ELSE Norm(Sgn(x.m) * Sgn(y.m) * MulMant(Abs(x.m), Abs(y.m)), x.e + y.e + 7)

\* one step of long division by d: <<quotient so far, remainder>>
DivStep[s \in Int \X Int, d \in Int] ==
    <<s[1] * 10 + ((s[2] * 10) \div d), (s[2] * 10) % d>>

\* the first nine digits of a / d, for normalised mantissas a and d
DivMant(a, d) ==
    DivStep[DivStep[DivStep[DivStep[DivStep[DivStep[DivStep[DivStep[
        <<a \div d, a % d>>, d], d], d], d], d], d], d], d][1]

\* x / y
div[x \in Double, y \in Double] ==
    IF x.k = "nan" \/ y.k = "nan" THEN NaN
    ELSE IF x.k = "inf" /\ y.k = "inf" THEN NaN
    ELSE IF x.k = "inf"
         THEN (IF Sgn(x.m) * (IF y.m < 0 THEN -1 ELSE 1) > 0 THEN PosInf ELSE NegInf)
    ELSE IF y.k = "inf" THEN Zero
    ELSE IF y.m = 0
         THEN (IF x.m = 0 THEN NaN ELSE IF x.m > 0 THEN PosInf ELSE NegInf)
    ELSE IF x.m = 0 THEN Zero
    ELSE Norm(Sgn(x.m) * Sgn(y.m) * DivMant(Abs(x.m), Abs(y.m)), x.e - y.e - 8)

\* the sign of x - y for x, y other than NaN: infinities first, then the
\* signs, the exponents and the mantissas of the normalised finite values
Compare[x \in Double, y \in Double] ==
    IF x.k = "inf" /\ y.k = "inf" THEN Sgn(x.m - y.m)
    ELSE IF x.k = "inf" THEN Sgn(x.m)
    ELSE IF y.k = "inf" THEN -Sgn(y.m)
    ELSE IF Sgn(x.m) # Sgn(y.m) THEN Sgn(Sgn(x.m) - Sgn(y.m))
    ELSE IF x.m = 0 THEN 0
    ELSE IF x.e # y.e THEN (IF x.e > y.e THEN Sgn(x.m) ELSE -Sgn(x.m))
    ELSE Sgn(x.m - y.m)

\* x < y, x <= y, x > y (false whenever an operand is NaN)
lt[x \in Double, y \in Double]  == x.k # "nan" /\ y.k # "nan" /\ Compare[x, y] < 0
leq[x \in Double, y \in Double] == x.k # "nan" /\ y.k # "nan" /\ Compare[x, y] <= 0
gt[x \in Double, y \in Double]  == lt[y, x]

\* the integer part of a finite x
trunc[x \in Double] ==
    IF x.e >= 0 THEN x
    ELSE IF x.e < -8 THEN Zero
    ELSE Norm(Quot(x.m, Pow10(-x.e)), 0)

\* Math.PI
PI     == Dbl(314159265, -8)
HalfPI == div[PI, Dbl(2, 0)]
TwoPI  == add[PI, PI]

\* x, or -x when negate holds
negIf[x \in Double, negate \in BOOLEAN] == IF negate THEN neg[x] ELSE x

\* |x|
abs[x \in Double] == negIf[x, x.m < 0]

\* one more term of a power series: s = <<sum, term, n>>, the next term is
\* term * f / (n (n + 1))
SeriesStep[s \in Double \X Double \X Int, f \in Double] ==
    <<add[s[1], s[2]], div[mul[s[2], f], Dbl(s[3] * (s[3] + 1), 0)], s[3] + 2>>

\* the sum and the next term after `steps` more terms
SeriesSteps[s \in Double \X Double \X Int, f \in Double, steps \in Nat] ==
    IF steps = 0 THEN s ELSE SeriesSteps[SeriesStep[s, f], f, steps - 1]

\* t + t f/(n(n+1)) + t f^2/(n(n+1)(n+2)(n+3)) + ... : nine terms
Series[t \in Double, f \in Double, n \in Int] ==
    add[SeriesSteps[<<Zero, t, n>>, f, 8][1], SeriesSteps[<<Zero, t, n>>, f, 8][2]]

\* x reduced to [-2 pi, 2 pi]
Reduce[x \in Double] ==
    IF leq[x, TwoPI] /\ leq[neg[TwoPI], x] THEN x
    ELSE sub[x, mul[TwoPI, trunc[div[x, TwoPI]]]]

\* the Taylor series of the sine and the cosine, for |x| <= pi/2
SinSeries[x \in Double] == Series[x, neg[mul[x, x]], 2]
CosSeries[x \in Double] == Series[Dbl(1, 0), neg[mul[x, x]], 1]

\* 0 <= a <= 2 pi folded into [-pi/2, pi/2]: a, pi - a or a - 2 pi
Fold[a \in Double] ==
    IF leq[a, HalfPI] THEN a
    ELSE IF leq[a, add[PI, HalfPI]] THEN sub[PI, a]
    ELSE sub[a, TwoPI]

\* the sine and the cosine of 0 <= a <= 2 pi: sin a = sin(pi - a) = sin(a - 2 pi),
\* cos a = -cos(pi - a) = cos(a - 2 pi)
SinPositive[a \in Double] == SinSeries[Fold[a]]
CosPositive[a \in Double] ==
    negIf[CosSeries[Fold[a]], ~leq[a, HalfPI] /\ leq[a, add[PI, HalfPI]]]

\* the sine and the cosine of -2 pi <= r <= 2 pi
SinReduced[r \in Double] == negIf[SinPositive[abs[r]], r.m < 0]
CosReduced[r \in Double] == CosPositive[abs[r]]

\* Math.sin: argument reduction, then the Taylor series
sin[x \in Double] == IF x.k # "fin" THEN NaN ELSE SinReduced[Reduce[x]]

\* Math.cos: argument reduction, then the Taylor series
cos[x \in Double] == IF x.k # "fin" THEN NaN ELSE CosReduced[Reduce[x]]

\* one Newton step towards the square root of x
NewtonStep[x \in Double, y \in Double] == div[add[y, div[x, y]], Dbl(2, 0)]

\* `steps` Newton steps from y
Newton[x \in Double, y \in Double, steps \in Nat] ==
    IF steps = 0 THEN y ELSE Newton[x, NewtonStep[x, y], steps - 1]

\* Math.sqrt: eight Newton steps from 3 * 10^(half the exponent)
sqrt[x \in Double] ==
    IF x.k = "nan" THEN NaN
    ELSE IF x.m < 0 THEN NaN
    ELSE IF x.k = "inf" \/ x.m = 0 THEN x
    ELSE Newton[x, [k |-> "fin", m |-> 3 * Lo, e |-> Quot(x.e + 7, 2) - 7], 8]

\* one more term of the arctangent series: s = <<sum, power, n>>
AtanStep[s \in Double \X Double \X Int, f \in Double] ==
    <<add[s[1], div[s[2], Dbl(s[3], 0)]], mul[s[2], f], s[3] + 2>>

\* the sum and the next power after `steps` more terms
AtanSteps[s \in Double \X Double \X Int, f \in Double, steps \in Nat] ==
    IF steps = 0 THEN s ELSE AtanSteps[AtanStep[s, f], f, steps - 1]

\* t - t^3/3 + t^5/5 - ... : eight terms, for |t| <= 0.2
AtanSeries[t \in Double] == AtanSteps[<<Zero, t, 1>>, neg[mul[t, t]], 8][1]

\* x / (1 + sqrt(1 + x^2)), `times` times: atan(x) = 2 * atan(Halve(x, 1))
Halve[x \in Double, times \in Nat] ==
    IF times = 0 THEN x
    ELSE Halve[div[x, add[Dbl(1, 0), sqrt[add[Dbl(1, 0), mul[x, x]]]]], times - 1]

\* the arctangent of 0 <= x <= 1
AtanUnit[x \in Double] == mul[Dbl(4, 0), AtanSeries[Halve[x, 2]]]

\* pi/2 - u when the argument was inverted, else u
Complement[u \in Double, inverted \in BOOLEAN] ==
    IF inverted THEN sub[HalfPI, u] ELSE u

\* the arctangent of a finite a >= 0: atan a = pi/2 - atan(1/a) for a > 1
AtanFinite[a \in Double] ==
    Complement[AtanUnit[IF gt[a, Dbl(1, 0)] THEN div[Dbl(1, 0), a] ELSE a],
               gt[a, Dbl(1, 0)]]

\* the arctangent of a >= 0
AtanPositive[a \in Double] == IF a.k = "inf" THEN HalfPI ELSE AtanFinite[a]

\* Math.atan
atan[x \in Double] ==
    IF x.k = "nan" THEN NaN ELSE negIf[AtanPositive[abs[x]], x.m < 0]

\* the quadrant correction of Math.atan2 for x # 0
Quadrant[y \in Double, x \in Double] ==
    IF x.m > 0 THEN Zero ELSE IF y.m >= 0 THEN PI ELSE neg[PI]

\* Math.atan2(y, x), for finite or NaN arguments (haversineDistance passes it
\* square roots of finite numbers only)
atan2[y \in Double, x \in Double] ==
    IF y.k = "nan" \/ x.k = "nan" THEN NaN
    ELSE IF x.m # 0 THEN add[atan[div[y, x]], Quadrant[y, x]]
    ELSE IF y.m > 0 THEN HalfPI
    ELSE IF y.m < 0 THEN neg[HalfPI]
    ELSE Zero

\* Math.toRadians
toRadians[angdeg \in Double] == mul[div[angdeg, Dbl(180, 0)], PI]

\* Math.asin, for finite or NaN arguments: the angle in [-pi/2, pi/2] whose
\* sine is x, NaN outside [-1, 1]
asin[x \in Double] == atan2[x, sqrt[sub[Dbl(1, 0), mul[x, x]]]]

\* Math.tan
tan[x \in Double] == div[sin[x], cos[x]]

\* t > 0 halved or doubled into [0.75, 1.5]: <<t / 2^n, n>>
LogReduce[t \in Double, n \in Int] ==
    IF gt[t, Dbl(15, -1)] THEN LogReduce[div[t, Dbl(2, 0)], n + 1]
    ELSE IF lt[t, Dbl(75, -2)] THEN LogReduce[mul[t, Dbl(2, 0)], n - 1]
    ELSE <<t, n>>

\* ln 2
Ln2 == Dbl(69314718, -8)

\* ln(t 2^n) for 0.75 <= t <= 1.5: n ln 2 + 2 (z + z^3/3 + z^5/5 + ...) with
\* z = (t - 1) / (t + 1), eight terms
LogReduced[r \in Double \X Int] ==
    LET z == div[sub[r[1], Dbl(1, 0)], add[r[1], Dbl(1, 0)]]
    IN  add[mul[Dbl(r[2], 0), Ln2],
            mul[Dbl(2, 0), AtanSteps[<<Zero, z, 1>>, mul[z, z], 8][1]]]

\* Math.log
log[x \in Double] ==
    IF x.k = "nan" \/ x.m < 0 THEN NaN
    ELSE IF x.k = "inf" THEN PosInf
    ELSE IF x.m = 0 THEN NegInf
    ELSE LogReduced[LogReduce[x, 0]]

\* ------------------------------------------------------------------------
\* GeoUtils (Java)
\* ------------------------------------------------------------------------
\* lines 358-359 (and Leaflet's distance):
\* a = sinDLat * sinDLat + cos(lat1) * cos(lat2) * sinDLon * sinDLon, where
\* sinDLat and sinDLon are the sines of half the differences
HaversineTerm[sinDLat \in Double, cosLat1 \in Double, cosLat2 \in Double, sinDLon \in Double] ==
    add[mul[sinDLat, sinDLat], mul[mul[mul[cosLat1, cosLat2], sinDLon], sinDLon]]

\* line 360 (and Leaflet's distance): 2 * Math.atan2(Math.sqrt(a), Math.sqrt(1 - a))
CentralAngle[a \in Double] ==
    mul[Dbl(2, 0), atan2[sqrt[a], sqrt[sub[Dbl(1, 0), a]]]]

\* haversineDistance without the factor 2 of line 360
haversineDistanceHalfAngle(lat1, lon1, lat2, lon2, earthR) ==
    LET dLat == sub[toRadians[lat2], toRadians[lat1]]
        dLon == sub[toRadians[lon2], toRadians[lon1]]
        a == HaversineTerm[sin[div[dLat, Dbl(2, 0)]], cos[toRadians[lat1]],
                           cos[toRadians[lat2]], sin[div[dLon, Dbl(2, 0)]]]
    IN  mul[earthR, atan2[sqrt[a], sqrt[sub[Dbl(1, 0), a]]]]

\* GeoUtils.haversineDistance: the great-circle distance in metres
haversineDistance(lat1, lon1, lat2, lon2, earthR) ==
    LET lat1Rad == toRadians[lat1]
        lon1Rad == toRadians[lon1]
        lat2Rad == toRadians[lat2]
        lon2Rad == toRadians[lon2]
        dLat == sub[lat2Rad, lat1Rad]
        dLon == sub[lon2Rad, lon1Rad]
        a == HaversineTerm[sin[div[dLat, Dbl(2, 0)]], cos[lat1Rad], cos[lat2Rad],
                           sin[div[dLon, Dbl(2, 0)]]]
        c == CentralAngle[a]
    IN  mul[earthR, c]

\* GeoUtils.Point objects and the null reference; lon and lat in degrees
Point(lon, lat) == [isNull |-> FALSE, lon |-> lon, lat |-> lat]
NullPoint       == [isNull |-> TRUE, lon |-> Zero, lat |-> Zero]

\* a Point[] array, or the null array reference
Array(elems) == [isNull |-> FALSE, elems |-> elems]
NullArray    == [isNull |-> TRUE, elems |-> <<>>]

\* GeoUtils.GeoOptions objects and the null reference
GeoOptions(earthR) == [isNull |-> FALSE, earthRadius |-> earthR]
NullOptions             == [isNull |-> TRUE, earthRadius |-> Zero]

\* the default Earth radius of findPointsInCircle, and the WGS84 radius the
\* tests pass
DefaultEarthRadius == Dbl(6371000, 0)
Wgs84Radius        == Dbl(6378137, 0)

\* ------------------------------------------------------------------------
\* inputs
\* ------------------------------------------------------------------------
MaxPoints == 3    \* longest points array

Deg0   == Zero
Deg01  == Dbl(1, -1)
Deg1   == Dbl(1, 0)
Deg180 == Dbl(180, 0)
Deg181 == Dbl(181, 0)

\* array entries: null, the tests' points, a point of longitude 181 (out of
\* range), and points with a NaN longitude or an infinite latitude
PointValues ==
    { NullPoint, Point(Deg0, Deg0), Point(Deg01, Deg01), Point(Deg1, Deg1),
      Point(Deg181, Deg0), Point(NaN, Deg0), Point(Deg0, PosInf) }

\* the sequences over S of length at most n
SeqsUpTo(S, n) == UNION {[1..len -> S] : len \in 0..n}

PointArrays == {NullArray} \cup {Array(q) : q \in SeqsUpTo(PointValues, MaxPoints)}

\* circle centres <<lon, lat>>: the tests' centre, a centre on the 180th
\* meridian, one of longitude 181 (out of range), and non-finite ones
Centers ==
    { <<Deg0, Deg0>>, <<Deg180, Deg0>>, <<Deg181, Deg0>>, <<NaN, Deg0>>,
      <<Deg0, PosInf>> }

\* the radius at which the point (0.1, 0.1) lies exactly on the circle
\* around (0, 0)
RadiusOnCircle == haversineDistance(Deg0, Deg0, Deg01, Deg01, DefaultEarthRadius)

\* radii in metres: negative, zero, on a point, and the tests' 100 km, 112 km
Radii == { Dbl(-1, 0), Zero, RadiusOnCircle, Dbl(100000, 0), Dbl(112000, 0) }

\* the options a caller passes: none, the default and the WGS84 radius, and
\* radii of zero and below
OptionValues ==
    { NullOptions, GeoOptions(DefaultEarthRadius), GeoOptions(Wgs84Radius),
      GeoOptions(Zero), GeoOptions(Dbl(-6371000, 0)) }

\* ResolveEarthRadius without the test earthRadius > 0
ResolveEarthRadiusNonNull(o) ==
    IF ~o.isNull THEN o.earthRadius ELSE DefaultEarthRadius

\* line 314: the sphere radius the call uses
ResolveEarthRadius(o) ==
    IF ~o.isNull /\ gt[o.earthRadius, Zero] THEN o.earthRadius ELSE DefaultEarthRadius

\* haversineDistance tabulated, once, over the arguments the inputs above can
\* give it at line 328: <<centerLat, centerLon, lat, lon, earthRadius>>
HaversineArguments ==
    { <<c[2], c[1], p.lat, p.lon, ResolveEarthRadius(o)>> :
        c \in Centers, p \in PointValues \ {NullPoint}, o \in OptionValues }

HaversineTable ==
    [a \in HaversineArguments |-> haversineDistance(a[1], a[2], a[3], a[4], a[5])]
        @@ <<>>

\* ------------------------------------------------------------------------
\* MapInteraction (Leaflet)
\* ------------------------------------------------------------------------
\* the static points the exported component passes as the points prop
pointsData ==
    << [documentId |-> "1", lat |-> Dbl(51505, -3), lng |-> Dbl(-9, -2),  name |-> "Point 1"],
       [documentId |-> "2", lat |-> Dbl(5151, -2),  lng |-> Dbl(-8, -2),  name |-> "Point 2"],
       [documentId |-> "3", lat |-> Dbl(515, -1),   lng |-> Dbl(-1, -1),  name |-> "Point 3"],
       [documentId |-> "4", lat |-> Dbl(5152, -2),  lng |-> Dbl(-7, -2),  name |-> "Point 4"] >>

\* new L.LatLng(lat, lng)
LatLng(lat, lng) == [lat |-> lat, lng |-> lng]

\* center.distanceTo(pointLatLng): Leaflet's L.CRS.Earth.distance, the haversine
\* formula on the sphere of radius 6371000 m
distanceTo(latlng1, latlng2) ==
    LET rad == div[PI, Dbl(180, 0)]
        lat1 == mul[latlng1.lat, rad]
        lat2 == mul[latlng2.lat, rad]
        sinDLat == sin[div[mul[sub[latlng2.lat, latlng1.lat], rad], Dbl(2, 0)]]
        sinDLon == sin[div[mul[sub[latlng2.lng, latlng1.lng], rad], Dbl(2, 0)]]
        a == HaversineTerm[sinDLat, cos[lat1], cos[lat2], sinDLon]
        c == CentralAngle[a]
    IN  mul[Dbl(6371000, 0), c]

\* contains with the bounds themselves left out
containsInterior(bounds, latlng) ==
    /\ lt[bounds.sw.lat, latlng.lat]
    /\ lt[latlng.lat, bounds.ne.lat]
    /\ lt[bounds.sw.lng, latlng.lng]
    /\ lt[latlng.lng, bounds.ne.lng]

\* bounds.contains(pointLatLng): Leaflet's LatLngBounds.contains for a point
contains(bounds, latlng) ==
    /\ leq[bounds.sw.lat, latlng.lat]
    /\ leq[latlng.lat, bounds.ne.lat]
    /\ leq[bounds.sw.lng, latlng.lng]
    /\ leq[latlng.lng, bounds.ne.lng]

\* the layers a draw:created event carries: an L.Circle or an L.Rectangle
NoBounds == [sw |-> LatLng(Zero, Zero), ne |-> LatLng(Zero, Zero)]
CircleLayer(center, r) ==
    [layerType |-> "circle", latlng |-> center, mRadius |-> r, bounds |-> NoBounds]
RectangleLayer(sw, ne) ==
    [layerType |-> "rectangle", latlng |-> LatLng(Zero, Zero), mRadius |-> Zero,
     bounds |-> [sw |-> sw, ne |-> ne]]

\* no layer, and the event record before any draw event
NoLayer ==
    [layerType |-> "none", latlng |-> LatLng(Zero, Zero), mRadius |-> Zero,
     bounds |-> NoBounds]
NoEvent == [type |-> "none", layer |-> NoLayer]

\* the centre the user draws circles around: Point 1, the map's centre
CircleCenters == { LatLng(pointsData[1].lat, pointsData[1].lng) }

\* the radius at which Point 2 lies exactly on the circle around Point 1
RadiusThroughPoint2 ==
    distanceTo(LatLng(pointsData[1].lat, pointsData[1].lng),
               LatLng(pointsData[2].lat, pointsData[2].lng))

\* radii the user can draw, in metres
CircleRadii == { Zero, RadiusThroughPoint2, Dbl(1000, 0), Dbl(2500, 0) }

\* rectangles the user can draw: one with Point 3 and Point 2 on its corners,
\* one with Point 3 on a corner and Point 1 on its northern edge, one with
\* Point 1 and Point 4 on its corners, one holding no point
Rectangles ==
    { RectangleLayer(LatLng(Dbl(515, -1), Dbl(-1, -1)), LatLng(Dbl(5151, -2), Dbl(-8, -2))),
      RectangleLayer(LatLng(Dbl(515, -1), Dbl(-1, -1)), LatLng(Dbl(51505, -3), Dbl(-5, -2))),
      RectangleLayer(LatLng(Dbl(51505, -3), Dbl(-9, -2)), LatLng(Dbl(5152, -2), Dbl(-7, -2))),
      RectangleLayer(LatLng(Dbl(516, -1), Dbl(-5, -2)), LatLng(Dbl(517, -1), Dbl(-4, -2))) }

\* a layer of another type, as a draw:created event for a marker carries
MarkerLayer ==
    [layerType |-> "marker", latlng |-> LatLng(pointsData[1].lat, pointsData[1].lng),
     mRadius |-> Zero, bounds |-> NoBounds]

Layers ==
    {CircleLayer(c, r) : c \in CircleCenters, r \in CircleRadii} \cup Rectangles
        \cup {MarkerLayer}

\* distanceTo tabulated, once, over the centres and points above
DistanceTable ==
    [a \in CircleCenters \X {LatLng(pointsData[i].lat, pointsData[i].lng) : i \in 1..Len(pointsData)}
        |-> distanceTo(a[1], a[2])] @@ <<>>

\* ------------------------------------------------------------------------
\* findPointsInCircle (OpenLayers utility of the README)
\* ------------------------------------------------------------------------
\* ol/math: toRadians and toDegrees
olToRadians[angleInDegrees \in Double] == div[mul[angleInDegrees, PI], Dbl(180, 0)]
toDegrees[angleInRadians \in Double]   == div[mul[angleInRadians, Dbl(180, 0)], PI]

\* the last two statements of offset:
\* lon = lon1 + atan2(sin(bearing) sin(dByR) cos(lat1), cos(dByR) - sin(lat1) sin(lat))
\* and the return of [toDegrees(lon), toDegrees(lat)]
offsetLonLat[lat1 \in Double, lon1 \in Double, dByR \in Double, bearing \in Double, lat \in Double] ==
    << toDegrees[add[lon1, atan2[mul[mul[sin[bearing], sin[dByR]], cos[lat1]],
                                 sub[cos[dByR], mul[sin[lat1], sin[lat]]]]]],
       toDegrees[lat] >>

\* offset from the radians lat1, lon1 and the angle dByR:
\* lat = asin(sin(lat1) cos(dByR) + cos(lat1) sin(dByR) cos(bearing))
offsetRadians[lat1 \in Double, lon1 \in Double, dByR \in Double, bearing \in Double] ==
    offsetLonLat[lat1, lon1, dByR, bearing,
                 asin[add[mul[sin[lat1], cos[dByR]],
                          mul[mul[cos[lat1], sin[dByR]], cos[bearing]]]]]

\* ol/sphere offset with the default sphere radius: the <<lon, lat>> reached
\* from c1 after `distance` metres on the bearing (radians, clockwise from north)
sphereOffset[c1 \in Double \X Double, distance \in Double, bearing \in Double] ==
    offsetRadians[olToRadians[c1[2]], olToRadians[c1[1]],
                  div[distance, Dbl(63710088, -1)], bearing]

\* ol/geom/Polygon circular (line 30): the ring of n vertices at `r` metres
\* around the centre, closed by a copy of the first vertex; n = 0 means 32
circular[center \in Double \X Double, r \in Double, n \in Nat] ==
    LET sides == IF n = 0 THEN 32 ELSE n
        vertex(i) == sphereOffset[center, r,
                                  div[mul[mul[Dbl(2, 0), PI], Dbl(i, 0)], Dbl(sides, 0)]]
    IN  [j \in 1..(sides + 1) |-> vertex(IF j = sides + 1 THEN 0 ELSE j - 1)]

\* ol/proj/epsg3857: the sphere radius of Web Mercator and the y limits
RADIUS     == Dbl(6378137, 0)
HALF_SIZE  == mul[PI, RADIUS]
MAX_SAFE_Y == mul[RADIUS, log[tan[div[PI, Dbl(2, 0)]]]]

\* Math.min and Math.max: NaN when an argument is NaN
min[x \in Double, y \in Double] ==
    IF x.k = "nan" \/ y.k = "nan" THEN NaN ELSE IF Compare[x, y] <= 0 THEN x ELSE y
max[x \in Double, y \in Double] ==
    IF x.k = "nan" \/ y.k = "nan" THEN NaN ELSE IF Compare[x, y] >= 0 THEN x ELSE y

\* fromEPSG4326: y kept within -limit .. limit
clampY[y \in Double, limit \in Double] ==
    IF gt[y, limit] THEN limit
    ELSE IF lt[y, neg[limit]] THEN neg[limit]
    ELSE y

\* ol/proj/epsg3857 fromEPSG4326: <<lon, lat>> in degrees to Web Mercator metres
fromEPSG4326[c \in Double \X Double] ==
    << div[mul[HALF_SIZE, c[1]], Dbl(180, 0)],
       clampY[mul[RADIUS, log[tan[div[mul[PI, add[c[2], Dbl(90, 0)]], Dbl(360, 0)]]]],
              MAX_SAFE_Y] >>

\* fromLonLat(coordinate, projection) and the per-coordinate work of
\* transform('EPSG:4326', projection): Web Mercator, or no change for EPSG:4326
fromLonLat(coordinate, proj) ==
    IF proj = "EPSG:3857" THEN fromEPSG4326[coordinate] ELSE coordinate

\* polygon.transform('EPSG:4326', projection): every coordinate of the ring
transform[ring \in Seq(Double \X Double), proj \in STRING] ==
    [j \in DOMAIN ring |-> fromLonLat(ring[j], proj)]

\* line 30: circular(center, radius, sides).transform('EPSG:4326', projection)
circlePolygon(center, r, sides, proj) == transform[circular[center, r, sides], proj]

\* an extent is <<minX, minY, maxX, maxY>>; ol/extent createEmpty and extendXY
createEmpty == <<PosInf, PosInf, NegInf, NegInf>>
extendXY(extent, c) ==
    <<min[extent[1], c[1]], min[extent[2], c[2]], max[extent[3], c[1]], max[extent[4], c[2]]>>

\* getExtent stopping half-way through the ring's coordinates
getExtentOfHalfRing(ring) ==
    LET extended[j \in 0..Len(ring)] ==
            IF j = 0 THEN createEmpty ELSE extendXY(extended[j - 1], ring[j])
    IN  extended[Len(ring) \div 2]

\* line 150, circle.getExtent(): the extent of the ring's coordinates
getExtent(ring) ==
    LET extended[j \in 0..Len(ring)] ==
            IF j = 0 THEN createEmpty ELSE extendXY(extended[j - 1], ring[j])
    IN  extended[Len(ring)]

\* the features of the vector source: a Point with its coordinate, or a
\* LineString from `coordinates` to `last`
PointFeature(c) == [geometry |-> "Point", coordinates |-> c, last |-> c]

\* feature.getGeometry().getExtent()
featureExtent(feature) ==
    extendXY(extendXY(createEmpty, feature.coordinates), feature.last)

\* the test of the source's R-tree: the two extents share a point
intersects(a, b) ==
    /\ leq[b[1], a[3]]
    /\ leq[b[2], a[4]]
    /\ leq[a[1], b[3]]
    /\ leq[a[2], b[4]]

\* the features, and the extents
Feature == [geometry : STRING, coordinates : Double \X Double, last : Double \X Double]
Extent  == Double \X Double \X Double \X Double

\* line 151, vectorSource.getFeaturesInExtent(extent): the features whose
\* extent intersects it, in the order getFeatures() gives them
getFeaturesInExtent[source \in Seq(Feature), extent \in Extent] ==
    LET inExtent(feature) == intersects(extent, featureExtent(feature))
    IN  SelectSeq(source, inExtent)

\* ol/geom/flat/contains linearRingContainsXY: what the edge from c1 to c2
\* adds to the winding number of the ring around <<x, y>>
windingOfEdge(c1, c2, x, y) ==
    LET cross == sub[mul[sub[c2[1], c1[1]], sub[y, c1[2]]],
                     mul[sub[x, c1[1]], sub[c2[2], c1[2]]]]
    IN  IF leq[c1[2], y]
        THEN (IF gt[c2[2], y] /\ gt[cross, Zero] THEN 1 ELSE 0)
        ELSE (IF leq[c2[2], y] /\ lt[cross, Zero] THEN -1 ELSE 0)

\* lines 36, 154, circle.intersectsCoordinate(coordinate): the winding number
\* of the ring around the coordinate is not 0 (the loop starts with the edge
\* from the last coordinate to the first; reversing the ring negates the
\* number)
intersectsCoordinate(ring, coordinate) ==
    LET wn[j \in 0..Len(ring)] ==
            IF j = 0 THEN 0
            ELSE wn[j - 1] + windingOfEdge(ring[IF j = 1 THEN Len(ring) ELSE j - 1],
                                           ring[j], coordinate[1], coordinate[2])
    IN  wn[Len(ring)] # 0

\* the projections of the map: Web Mercator (the default), or geographic
\* coordinates
Projections == {"EPSG:3857", "EPSG:4326"}

\* the <<lon, lat>> of the point features: the README's sample points, a point
\* inside every circle below, and one outside the 100 km circle but inside
\* its extent
LonLats ==
    { <<Zero, Zero>>, <<Dbl(1, 0), Dbl(1, 0)>>, <<Dbl(2, 0), Dbl(2, 0)>>,
      <<Dbl(-3, -1), Dbl(-3, -1)>>, <<Dbl(8, -1), Dbl(8, -1)>> }

\* lines 81-85: the features a map of projection proj can hold:
\* new Feature(new Point(fromLonLat(lonLat))), and a LineString across the
\* circles, from [-1, 0] to [1, 0]
FeatureValues(proj) ==
    LET lines == { <<c, <<Dbl(1, 0), Zero>> >> : c \in {<<Dbl(-1, 0), Zero>>} }
        ends  == { <<"Point", <<c, c>> >> : c \in LonLats }
                     \cup { <<"LineString", l>> : l \in lines }
    IN  { [geometry |-> f[1],
           coordinates |-> fromLonLat(f[2][1], proj),
           last |-> fromLonLat(f[2][2], proj)] : f \in ends }

MaxFeatures == 3    \* most features in the vector source

\* the contents of the vector source of a map of each projection
VectorSources ==
    [proj \in Projections |-> SeqsUpTo(FeatureValues(proj), MaxFeatures)]

\* the arguments of findPointsInCircle: the README's centre [0, 0], radii of
\* 100 km and 200 km, and the options projection and sides
CircleQueries ==
    { [center |-> <<Zero, Zero>>, radius |-> r, projection |-> proj, sides |-> n] :
        r \in {Dbl(100000, 0), Dbl(200000, 0)}, proj \in Projections, n \in {4, 8} }

NoQuery == [center |-> <<Zero, Zero>>, radius |-> Zero, projection |-> "none", sides |-> 0]

\* the circle polygon of a query, its extent, and intersectsCoordinate on it,
\* tabulated once over the queries and the coordinates above
CircleTable ==
    [q \in CircleQueries |-> circlePolygon(q.center, q.radius, q.sides, q.projection)]
        @@ <<>>

ExtentTable == [q \in CircleQueries |-> getExtent(CircleTable[q])] @@ <<>>

FeatureCoordinates ==
    UNION { {f.coordinates : f \in FeatureValues(proj)} : proj \in Projections }

IntersectsTable ==
    [a \in CircleQueries \X FeatureCoordinates |-> intersectsCoordinate(CircleTable[a[1]], a[2])]
        @@ <<>>

\* ------------------------------------------------------------------------
\* LayoutWithMap and the MapComponent it shows
\* ------------------------------------------------------------------------
HANDLE_WIDTH == 20

\* lines 622-626: the width of the left column
leftWidth(full, open) ==
    IF full THEN "0%"
    ELSE IF open THEN "calc(50% - " \o ToString(HANDLE_WIDTH) \o "px)"
    ELSE "calc(100% - " \o ToString(HANDLE_WIDTH) \o "px)"

\* lines 628-632: the width of the right column
rightWidth(full, open) ==
    IF full THEN "100%"
    ELSE IF open THEN "50%"
    ELSE "0%"

\* an optional number that is absent: zoom?, iconSize?
Undefined == [k |-> "undefined", m |-> 0, e |-> 0]

\* a ?? b
Nullish(a, b) == IF a.k = "undefined" THEN b ELSE a

\* the Location and PointData objects
Location(lat, lon, zoom) == [latitude |-> lat, longitude |-> lon, zoom |-> zoom]
PointData(lat, lon, size) == [latitude |-> lat, longitude |-> lon, iconSize |-> size]

\* lines 634-638: the location LayoutWithMap passes
PageLocation == Location(Dbl(3238, -2), Dbl(-8631, -2), Dbl(15, 0))

\* lines 640-644: the points LayoutWithMap passes
examplePoints ==
    << PointData(Dbl(323792, -4), Dbl(-863077, -4), Dbl(64, 0)),
       PointData(Dbl(3238, -2), Dbl(-8631, -2), Dbl(32, 0)),
       PointData(Dbl(32381, -3), Dbl(-86312, -3), Dbl(16, 0)) >>

MaxPointData == 2    \* longest points prop, LayoutWithMap's apart

\* the locations a parent passes: LayoutWithMap's, one without a zoom, and
\* ones with a NaN latitude or an infinite longitude
Locations ==
    { PageLocation,
      Location(Dbl(3238, -2), Dbl(-8631, -2), Undefined),
      Location(NaN, Dbl(-8631, -2), Dbl(15, 0)),
      Location(Dbl(3238, -2), NegInf, Dbl(15, 0)) }

\* the entries of a points prop: one of LayoutWithMap's, one without an icon
\* size, and ones with a NaN latitude or an infinite longitude
PointDataValues ==
    { examplePoints[1],
      PointData(Dbl(3238, -2), Dbl(-8631, -2), Undefined),
      PointData(NaN, Dbl(-8631, -2), Dbl(32, 0)),
      PointData(Dbl(32381, -3), PosInf, Dbl(16, 0)) }

\* the points props a parent passes; LayoutWithMap's is one of them
PointDataProps == SeqsUpTo(PointDataValues, MaxPointData) \cup {examplePoints}

\* lines 40 and 75: Number.isFinite of both coordinates
HasFiniteCoordinates(o) == isFinite(o.latitude) /\ isFinite(o.longitude)

\* lines 80-96: the feature of a point: its geometry and the scale of its icon
FeatureOfPoint(point) ==
    [geometry |-> "Point",
     coordinates |-> fromLonLat(<<point.longitude, point.latitude>>, "EPSG:3857"),
     scale |-> div[Nullish(point.iconSize, Dbl(5, 0)), Dbl(512, 0)]]

\* every point that occurs in a points prop
AllPointData == PointDataValues \cup {examplePoints[2], examplePoints[3]}

\* FeatureOfPoint tabulated, once, over the points that get a feature
FeatureTable ==
    [point \in {v \in AllPointData : HasFiniteCoordinates(v)}
        |-> FeatureOfPoint(point)] @@ <<>>

\* mapInstance.current: null, or a Map with the centre and zoom of its view
NullMap == [isNull |-> TRUE, center |-> <<Zero, Zero>>, zoom |-> Zero]
Map(center, zoom) == [isNull |-> FALSE, center |-> center, zoom |-> zoom]

\* vectorSourceRef.current: null, or a VectorSource with its features
NullSource == [isNull |-> TRUE, features |-> <<>>]
VectorSource(fs) == [isNull |-> FALSE, features |-> fs]

\* lines 63 and 106: fromLonLat([location.longitude, location.latitude]), once
\* for every location with finite coordinates
CenterTable ==
    [loc \in {v \in Locations : HasFiniteCoordinates(v)}
        |-> fromLonLat(<<loc.longitude, loc.latitude>>, "EPSG:3857")] @@ <<>>

\* ------------------------------------------------------------------------
\* GeoUtils called from several threads
\* ------------------------------------------------------------------------
\* the threads calling findPointsInCircle
Threads == {"t1", "t2"}

MaxSharedPoints == 2    \* longest array the threads share

\* the arrays the threads share: null entries, the tests' points (0, 0) and
\* (0.1, 0.1), and the point of longitude 181
SharedArrays ==
    {NullArray} \cup
    { Array(q) : q \in SeqsUpTo({ NullPoint, Point(Deg0, Deg0), Point(Deg01, Deg01),
                                  Point(Deg181, Deg0) }, MaxSharedPoints) }

\* the other arguments of the threads' calls: <<centerLon, centerLat>>, radius, options
ThreadCenters == { <<Deg0, Deg0>>, <<Deg180, Deg0>> }
ThreadRadii   == { Zero, RadiusOnCircle, Dbl(112000, 0) }
ThreadOptions == { NullOptions, GeoOptions(Wgs84Radius) }

\* the frame of a call of findPointsInCircle: the position, the arguments
\* (points is the shared array) and the locals of lines 314-315, 321
Frame(at, cLon, cLat, r, o, earthR, list, i, returned) ==
    [pc |-> at, centerLon |-> cLon, centerLat |-> cLat, radius |-> r, options |-> o,
     earthRadius |-> earthR, pointsInCircle |-> list, idx |-> i, result |-> returned]

\* a thread that has not called yet
IdleFrame == Frame("idle", Zero, Zero, Zero, NullOptions, Zero, <<>>, 0, <<>>)

\* ------------------------------------------------------------------------
\* state
\* ------------------------------------------------------------------------
VARIABLES
    app,            \* the program running: "GeoUtils" or "MapInteraction"
    pc,             \* position in findPointsInCircle: idle, L317, L321, and
                    \* returned once the call is over
    points,         \* argument: the Point[] array
    centerLon,      \* argument
    centerLat,      \* argument
    radius,         \* argument
    options,        \* argument
    earthRadius,    \* local, line 314
    pointsInCircle, \* local, line 315: the ArrayList being filled
    idx,            \* position of the for-each loop of line 321 in points
    result,         \* the list returned to the caller
    exception,      \* the exception the call ended with, "none" if it
                    \* returned its list
    mapPoints,      \* MapInteraction's points prop
    filteredPoints, \* MapComponent's state, line 179
    featureGroup,   \* MapInteraction's state, line 105: "null" or "set"
    groupLayers,    \* the layers of the Leaflet FeatureGroup
    lastEvent,      \* the latest draw event handled: its type and e.layer
    projection,     \* the projection of the OpenLayers map's view
    vectorSource,   \* the features of the map's vector source, in the order
                    \* getFeatures() gives them
    circleQuery,    \* the arguments of the latest findPointsInCircle call
    features,       \* what that call returned: line 33
    extentQueried,  \* the query through getFeaturesInExtent was run for the
                    \* same arguments
    featuresInExtent, \* what it returned: line 151
    sharedPoints,   \* the Point[] array the threads pass to findPointsInCircle
    frames,         \* each thread's call of findPointsInCircle: its position,
                    \* arguments, locals and returned list
    openSidebar,    \* LayoutWithMap's state, line 618
    fullView,       \* LayoutWithMap's state, line 619
    mounted,        \* MapComponent is mounted: mapRef.current is its container
    location,       \* MapComponent's location prop
    pointData,      \* MapComponent's points prop
    mapInstance,    \* mapInstance.current: null or the Map, with the centre
                    \* and zoom of its view
    vectorSourceRef, \* vectorSourceRef.current: null or the source's features
    cleanup,        \* the cleanup function the latest run of the effect
                    \* returned: "set", or "none" if it returned nothing
    effectPending,  \* a render with a new location or points prop is
                    \* committed and React has yet to run the effect
    lastClick,      \* the button of LayoutWithMap clicked last: "arrow",
                    \* "fullView", or "none" before the first click
    openAtEntry     \* openSidebar as it was when full view was last entered

javaVars == <<pc, points, centerLon, centerLat, radius, options, earthRadius,
              pointsInCircle, idx, result, exception>>

mapVars == <<mapPoints, filteredPoints, featureGroup, groupLayers, lastEvent>>

olVars == <<projection, vectorSource, circleQuery, features, extentQueried,
            featuresInExtent>>

threadVars == <<sharedPoints, frames>>

pageVars == <<openSidebar, fullView, mounted, location, pointData, mapInstance,
              vectorSourceRef, cleanup, effectPending, lastClick, openAtEntry>>

vars == <<app, javaVars, mapVars, olVars, threadVars, pageVars>>

Init ==
    /\ app \in {"GeoUtils", "MapInteraction"}
    /\ openSidebar = TRUE
    /\ fullView = FALSE
    /\ mounted = FALSE
    /\ location = PageLocation
    /\ pointData = <<>>
    /\ mapInstance = NullMap
    /\ vectorSourceRef = NullSource
    /\ cleanup = "none"
    /\ effectPending = FALSE
    /\ lastClick = "none"
    /\ openAtEntry = TRUE
    /\ sharedPoints = NullArray
    /\ frames = [t \in Threads |-> IdleFrame]
    /\ projection = "EPSG:3857"
    /\ vectorSource = <<>>
    /\ circleQuery = NoQuery
    /\ features = <<>>
    /\ extentQueried = FALSE
    /\ featuresInExtent = <<>>
    /\ mapPoints = pointsData
    /\ filteredPoints = <<>>
    /\ featureGroup = "null"
    /\ groupLayers = {}
    /\ lastEvent = NoEvent
    /\ pc = "idle"
    /\ points = NullArray
    /\ centerLon = Zero
    /\ centerLat = Zero
    /\ radius = Zero
    /\ options = NullOptions
    /\ earthRadius = Zero
    /\ pointsInCircle = <<>>
    /\ idx = 0
    /\ result = <<>>
    /\ exception = "none"

\* lines 313-315: a caller invokes findPointsInCircle; earthRadius is resolved
\* and the result list created
Call(p, cLon, cLat, r, o) ==
    /\ app = "GeoUtils"
    /\ pc = "idle"
    /\ UNCHANGED <<mapVars, olVars, threadVars, pageVars>>
    /\ points' = p
    /\ centerLon' = cLon
    /\ centerLat' = cLat
    /\ radius' = r
    /\ options' = o
    /\ earthRadius' = ResolveEarthRadius(o)
    /\ pointsInCircle' = <<>>
    /\ idx' = 0
    /\ result' = <<>>
    /\ exception' = "none"
    /\ pc' = "L317"
    /\ app' = app

\* ReturnForNull without the null check of line 317: the loop of line 321
\* dereferences the null array
ReturnForNullThrows ==
    /\ app = "GeoUtils"
    /\ pc = "L317"
    /\ UNCHANGED <<mapVars, olVars, threadVars, pageVars>>
    /\ points.isNull
    /\ exception' = "NullPointerException"
    /\ pc' = "returned"
    /\ UNCHANGED <<app, points, centerLon, centerLat, radius, options, earthRadius,
                   pointsInCircle, idx, result>>

\* lines 317-319: a null array returns the empty list
ReturnForNull ==
    /\ app = "GeoUtils"
    /\ pc = "L317"
    /\ UNCHANGED <<mapVars, olVars, threadVars, pageVars>>
    /\ points.isNull
    /\ result' = pointsInCircle
    /\ pc' = "returned"
    /\ UNCHANGED <<app, points, centerLon, centerLat, radius, options, earthRadius,
                   pointsInCircle, idx, exception>>

\* line 321: the for-each loop starts at the first entry
EnterLoop ==
    /\ app = "GeoUtils"
    /\ pc = "L317"
    /\ UNCHANGED <<mapVars, olVars, threadVars, pageVars>>
    /\ ~points.isNull
    /\ idx' = 1
    /\ pc' = "L321"
    /\ UNCHANGED <<app, points, centerLon, centerLat, radius, options, earthRadius,
                   pointsInCircle, result, exception>>

\* the containment test with < for <=
InCircleStrict(distance, r) == lt[distance, r]

\* the containment test refusing a radius of zero
InCirclePositiveRadius(distance, r) == gt[r, Zero] /\ leq[distance, r]

\* the containment test on squared distances
InCircleSquared(distance, r) == leq[mul[distance, distance], mul[r, r]]

\* the containment test written as "not farther than the radius"
InCircleNotGreater(distance, r) == ~gt[distance, r]

\* the containment test turned around: the points farther than the radius
InCircleOutside(distance, r) == gt[distance, r]

\* line 329: the containment test
InCircle(distance, r) == leq[distance, r]

\* SkipNull without the null check of line 322: line 325 dereferences null
SkipNullThrows ==
    /\ app = "GeoUtils"
    /\ pc = "L321"
    /\ UNCHANGED <<mapVars, olVars, threadVars, pageVars>>
    /\ idx <= Len(points.elems)
    /\ points.elems[idx].isNull
    /\ exception' = "NullPointerException"
    /\ pc' = "returned"
    /\ UNCHANGED <<app, points, centerLon, centerLat, radius, options, earthRadius,
                   pointsInCircle, idx, result>>

\* lines 321-324: a null entry is skipped
SkipNull ==
    /\ app = "GeoUtils"
    /\ pc = "L321"
    /\ UNCHANGED <<mapVars, olVars, threadVars, pageVars>>
    /\ idx <= Len(points.elems)
    /\ points.elems[idx].isNull
    /\ idx' = idx + 1
    /\ UNCHANGED <<app, pc, points, centerLon, centerLat, radius, options, earthRadius,
                   pointsInCircle, result, exception>>

\* longitude in [-180, 180] and latitude in [-90, 90]
InRange(lon, lat) ==
    /\ leq[Dbl(-180, 0), lon] /\ leq[lon, Dbl(180, 0)]
    /\ leq[Dbl(-90, 0), lat] /\ leq[lat, Dbl(90, 0)]

\* TestPoint adding at the front of the list
TestPointPrepend ==
    /\ app = "GeoUtils"
    /\ pc = "L321"
    /\ UNCHANGED <<mapVars, olVars, threadVars, pageVars>>
    /\ idx <= Len(points.elems)
    /\ ~points.elems[idx].isNull
    /\ LET point == points.elems[idx]
           distance == HaversineTable[<<centerLat, centerLon, point.lat, point.lon,
                                        earthRadius>>]
       IN  pointsInCircle' = IF InCircle(distance, radius)
                             THEN <<point>> \o pointsInCircle
                             ELSE pointsInCircle
    /\ idx' = idx + 1
    /\ UNCHANGED <<app, pc, points, centerLon, centerLat, radius, options, earthRadius,
                   result, exception>>

\* TestPoint collecting into a set: a point already in the list is not added
TestPointDedup ==
    /\ app = "GeoUtils"
    /\ pc = "L321"
    /\ UNCHANGED <<mapVars, olVars, threadVars, pageVars>>
    /\ idx <= Len(points.elems)
    /\ ~points.elems[idx].isNull
    /\ LET point == points.elems[idx]
           distance == HaversineTable[<<centerLat, centerLon, point.lat, point.lon,
                                        earthRadius>>]
           present == \E i \in DOMAIN pointsInCircle : pointsInCircle[i] = point
       IN  pointsInCircle' = IF InCircle(distance, radius) /\ ~present
                             THEN Append(pointsInCircle, point)
                             ELSE pointsInCircle
    /\ idx' = idx + 1
    /\ UNCHANGED <<app, pc, points, centerLon, centerLat, radius, options, earthRadius,
                   result, exception>>

\* TestPoint skipping the points whose coordinates are out of range
TestPointSkipsOutOfRange ==
    /\ app = "GeoUtils"
    /\ pc = "L321"
    /\ UNCHANGED <<mapVars, olVars, threadVars, pageVars>>
    /\ idx <= Len(points.elems)
    /\ ~points.elems[idx].isNull
    /\ LET point == points.elems[idx]
           distance == HaversineTable[<<centerLat, centerLon, point.lat, point.lon,
                                        earthRadius>>]
       IN  pointsInCircle' = IF InCircle(distance, radius) /\ InRange(point.lon, point.lat)
                             THEN Append(pointsInCircle, point)
                             ELSE pointsInCircle
    /\ idx' = idx + 1
    /\ UNCHANGED <<app, pc, points, centerLon, centerLat, radius, options, earthRadius,
                   result, exception>>

\* TestPoint clearing the array slot of a point outside the circle
TestPointNullsRejected ==
    /\ app = "GeoUtils"
    /\ pc = "L321"
    /\ UNCHANGED <<mapVars, olVars, threadVars, pageVars>>
    /\ idx <= Len(points.elems)
    /\ ~points.elems[idx].isNull
    /\ LET point == points.elems[idx]
           distance == HaversineTable[<<centerLat, centerLon, point.lat, point.lon,
                                        earthRadius>>]
       IN  IF InCircle(distance, radius)
           THEN pointsInCircle' = Append(pointsInCircle, point) /\ points' = points
           ELSE pointsInCircle' = pointsInCircle
                /\ points' = [points EXCEPT !.elems[idx] = NullPoint]
    /\ idx' = idx + 1
    /\ UNCHANGED <<app, pc, centerLon, centerLat, radius, options, earthRadius,
                   result, exception>>

\* lines 325-331: a non-null entry is added when its distance to the centre is
\* at most the radius
TestPoint ==
    /\ app = "GeoUtils"
    /\ pc = "L321"
    /\ UNCHANGED <<mapVars, olVars, threadVars, pageVars>>
    /\ idx <= Len(points.elems)
    /\ ~points.elems[idx].isNull
    /\ LET point == points.elems[idx]
           lon == point.lon
           lat == point.lat
           distance == HaversineTable[<<centerLat, centerLon, lat, lon, earthRadius>>]
       IN  pointsInCircle' = IF InCircle(distance, radius)
                             THEN Append(pointsInCircle, point)
                             ELSE pointsInCircle
    /\ idx' = idx + 1
    /\ UNCHANGED <<app, pc, points, centerLon, centerLat, radius, options, earthRadius,
                   result, exception>>

\* line 334: the loop is over and the list is returned
ReturnList ==
    /\ app = "GeoUtils"
    /\ pc = "L321"
    /\ UNCHANGED <<mapVars, olVars, threadVars, pageVars>>
    /\ idx > Len(points.elems)
    /\ result' = pointsInCircle
    /\ pc' = "returned"
    /\ UNCHANGED <<app, points, centerLon, centerLat, radius, options, earthRadius,
                   pointsInCircle, idx, exception>>

\* the caller is done with the returned list; the frame's locals are gone
Discard ==
    /\ app = "GeoUtils"
    /\ pc = "returned"
    /\ UNCHANGED <<mapVars, olVars, threadVars, pageVars>>
    /\ pc' = "idle"
    /\ points' = NullArray
    /\ centerLon' = Zero
    /\ centerLat' = Zero
    /\ radius' = Zero
    /\ options' = NullOptions
    /\ earthRadius' = Zero
    /\ pointsInCircle' = <<>>
    /\ idx' = 0
    /\ result' = <<>>
    /\ exception' = "none"
    /\ app' = app

\* lines 147-151: React hands the mounted FeatureGroup to the ref callback
SetFeatureGroup ==
    /\ app = "MapInteraction"
    /\ featureGroup = "null"
    /\ featureGroup' = "set"
    /\ UNCHANGED <<app, javaVars, mapPoints, filteredPoints, groupLayers, lastEvent, olVars, threadVars, pageVars>>

\* lines 117-121: the circle filter
InLeafletCircle(center, r, point) ==
    LET pointLatLng == LatLng(point.lat, point.lng)
        distance == DistanceTable[<<center, pointLatLng>>]
    IN  leq[distance, r]

\* lines 126-129: the rectangle filter
InRectangle(bounds, point) ==
    LET pointLatLng == LatLng(point.lat, point.lng)
    IN  contains(bounds, pointLatLng)

\* lines 108-132: the points inside the created layer; SelectSeq is
\* Array.prototype.filter, the entries satisfying the predicate, in order
FilterByLayer(layer) ==
    IF layer.layerType = "circle"
    THEN LET center == layer.latlng
             r == layer.mRadius
             inside(point) == InLeafletCircle(center, r, point)
         IN  SelectSeq(mapPoints, inside)
    ELSE IF layer.layerType = "rectangle"
    THEN LET bounds == layer.bounds
             inside(point) == InRectangle(bounds, point)
         IN  SelectSeq(mapPoints, inside)
    ELSE <<>>

\* onCreated without clearLayers: the shapes drawn before stay in the group
onCreatedKeepsLayers(layer) ==
    /\ app = "MapInteraction"
    /\ filteredPoints' = FilterByLayer(layer)
    /\ groupLayers' = groupLayers \cup {layer}
    /\ lastEvent' = [type |-> "draw:created", layer |-> layer]
    /\ UNCHANGED <<app, javaVars, mapPoints, featureGroup, olVars, threadVars, pageVars>>

\* onCreated adding the points of the new shape to those shown already
onCreatedAccumulates(layer) ==
    /\ app = "MapInteraction"
    /\ filteredPoints' = filteredPoints \o FilterByLayer(layer)
    /\ groupLayers' = IF featureGroup = "set" THEN {layer}
                      ELSE groupLayers \cup {layer}
    /\ lastEvent' = [type |-> "draw:created", layer |-> layer]
    /\ UNCHANGED <<app, javaVars, mapPoints, featureGroup, olVars, threadVars, pageVars>>

\* lines 108-139: the user finishes drawing a shape.  The draw control has put
\* the new layer into the feature group before it calls the handler.
onCreated(layer) ==
    /\ app = "MapInteraction"
    /\ filteredPoints' = FilterByLayer(layer)
    /\ groupLayers' = IF featureGroup = "set" THEN {layer}
                      ELSE groupLayers \cup {layer}
    /\ lastEvent' = [type |-> "draw:created", layer |-> layer]
    /\ UNCHANGED <<app, javaVars, mapPoints, featureGroup, olVars, threadVars, pageVars>>

\* lines 141-144: the user removes shapes with the draw control's remove tool,
\* which has taken them out of the feature group before it calls the handler
onDeleted(removed) ==
    /\ app = "MapInteraction"
    /\ removed \subseteq groupLayers
    /\ groupLayers' = groupLayers \ removed
    /\ filteredPoints' = <<>>
    /\ lastEvent' = [type |-> "draw:deleted", layer |-> NoLayer]
    /\ UNCHANGED <<app, javaVars, mapPoints, featureGroup, olVars, threadVars, pageVars>>

\* lines 80-86: the component's effect puts the point features into the
\* vector source
addFeatures(added) ==
    /\ app = "OpenLayers"
    /\ vectorSource = <<>>
    /\ circleQuery = NoQuery
    /\ added # <<>>
    /\ vectorSource' = added
    /\ UNCHANGED <<app, javaVars, mapVars, threadVars, pageVars, projection, circleQuery, features,
                   extentQueried, featuresInExtent>>

\* lines 34-38 and 152-156: the filter's callback: a Point whose coordinate
\* the circle polygon of the query q contains
isPointInCircle(q, feature) ==
    IF feature.geometry = "Point"
    THEN IntersectsTable[<<q, feature.coordinates>>]
    ELSE FALSE

\* lines 33-39 and 151-157: candidates.filter(callback), the candidates the
\* callback accepts, in order
filterInCircle[candidates \in Seq(Feature), q \in CircleQueries] ==
    LET inside(feature) == isPointInCircle(q, feature)
    IN  SelectSeq(candidates, inside)

\* lines 23-42: findPointsInCircle(map, vectorSource, center, radius, options)
\* filters all the features of the source
findPointsInCircle(q) ==
    /\ app = "OpenLayers"
    /\ circleQuery' = q
    /\ features' = filterInCircle[vectorSource, q]
    /\ extentQueried' = FALSE
    /\ featuresInExtent' = <<>>
    /\ UNCHANGED <<app, javaVars, mapVars, threadVars, pageVars, projection, vectorSource>>

\* lines 150-151: vectorSource.getFeaturesInExtent(circle.getExtent())
featuresInCircleExtent[source \in Seq(Feature), q \in CircleQueries] ==
    getFeaturesInExtent[source, ExtentTable[q]]

\* lines 150-157: the same query filtering the features of
\* getFeaturesInExtent(circle.getExtent())
findPointsInExtent ==
    /\ app = "OpenLayers"
    /\ circleQuery # NoQuery
    /\ ~extentQueried
    /\ featuresInExtent' =
           filterInCircle[featuresInCircleExtent[vectorSource, circleQuery], circleQuery]
    /\ extentQueried' = TRUE
    /\ UNCHANGED <<app, javaVars, mapVars, threadVars, pageVars, projection, vectorSource, circleQuery,
                   features>>

Next ==
    \/ /\ app = "GeoUtils"
       /\ pc = "idle"
       /\ \E p \in PointArrays, c \in Centers, r \in Radii, o \in OptionValues :
             Call(p, c[1], c[2], r, o)
    \/ ReturnForNull
    \/ EnterLoop
    \/ SkipNull
    \/ TestPoint
    \/ ReturnList
    \/ Discard
    \/ SetFeatureGroup
    \/ /\ app = "MapInteraction"
       /\ \E layer \in Layers : onCreated(layer)
    \/ /\ app = "MapInteraction"
       /\ \E removed \in SUBSET groupLayers : onDeleted(removed)

Spec == Init /\ [][Next]_vars

\* the README's OpenLayers component: a map of either projection, its vector
\* source empty, no query made
InitOpenLayers ==
    /\ app = "OpenLayers"
    /\ openSidebar = TRUE
    /\ fullView = FALSE
    /\ mounted = FALSE
    /\ location = PageLocation
    /\ pointData = <<>>
    /\ mapInstance = NullMap
    /\ vectorSourceRef = NullSource
    /\ cleanup = "none"
    /\ effectPending = FALSE
    /\ lastClick = "none"
    /\ openAtEntry = TRUE
    /\ sharedPoints = NullArray
    /\ frames = [t \in Threads |-> IdleFrame]
    /\ projection \in Projections
    /\ vectorSource = <<>>
    /\ circleQuery = NoQuery
    /\ features = <<>>
    /\ extentQueried = FALSE
    /\ featuresInExtent = <<>>
    /\ mapPoints = pointsData
    /\ filteredPoints = <<>>
    /\ featureGroup = "null"
    /\ groupLayers = {}
    /\ lastEvent = NoEvent
    /\ pc = "idle"
    /\ points = NullArray
    /\ centerLon = Zero
    /\ centerLat = Zero
    /\ radius = Zero
    /\ options = NullOptions
    /\ earthRadius = Zero
    /\ pointsInCircle = <<>>
    /\ idx = 0
    /\ result = <<>>
    /\ exception = "none"

NextOpenLayers ==
    \/ /\ vectorSource = <<>>
       /\ circleQuery = NoQuery
       /\ \E added \in VectorSources[projection] : addFeatures(added)
    \/ \E q \in CircleQueries : findPointsInCircle(q)
    \/ findPointsInExtent

SpecOpenLayers == InitOpenLayers /\ [][NextOpenLayers]_vars

\* ------------------------------------------------------------------------
\* findPointsInCircle called by several threads on one array
\* ------------------------------------------------------------------------
\* a list kept from the thread's previous call
reusedArrayList(previous) == previous

\* line 315: new ArrayList<>(), whatever list the thread's previous call made
newArrayList(previous) == <<>>

\* lines 313-315: thread t calls findPointsInCircle on the shared array; its
\* previous call, if any, is over
ThreadCall(t, cLon, cLat, r, o) ==
    /\ app = "Threads"
    /\ frames[t].pc \in {"idle", "returned"}
    /\ frames' = [frames EXCEPT ![t] =
                     Frame("L317", cLon, cLat, r, o, ResolveEarthRadius(o),
                           newArrayList(frames[t].pointsInCircle), 0, <<>>)]
    /\ UNCHANGED <<app, javaVars, mapVars, olVars, pageVars, sharedPoints>>

\* lines 317-319 in thread t
ThreadReturnForNull(t) ==
    /\ app = "Threads"
    /\ frames[t].pc = "L317"
    /\ sharedPoints.isNull
    /\ frames' = [frames EXCEPT ![t].result = frames[t].pointsInCircle,
                                ![t].pc = "returned"]
    /\ UNCHANGED <<app, javaVars, mapVars, olVars, pageVars, sharedPoints>>

\* line 321 in thread t: the loop starts
ThreadEnterLoop(t) ==
    /\ app = "Threads"
    /\ frames[t].pc = "L317"
    /\ ~sharedPoints.isNull
    /\ frames' = [frames EXCEPT ![t].idx = 1, ![t].pc = "L321"]
    /\ UNCHANGED <<app, javaVars, mapVars, olVars, pageVars, sharedPoints>>

\* lines 321-324 in thread t: a null entry is skipped
ThreadSkipNull(t) ==
    /\ app = "Threads"
    /\ frames[t].pc = "L321"
    /\ frames[t].idx <= Len(sharedPoints.elems)
    /\ sharedPoints.elems[frames[t].idx].isNull
    /\ frames' = [frames EXCEPT ![t].idx = frames[t].idx + 1]
    /\ UNCHANGED <<app, javaVars, mapVars, olVars, pageVars, sharedPoints>>

\* ThreadTestPoint with one list for all the calls: the point is added to the
\* list of every thread
ThreadTestPointOneList(t) ==
    /\ app = "Threads"
    /\ frames[t].pc = "L321"
    /\ frames[t].idx <= Len(sharedPoints.elems)
    /\ ~sharedPoints.elems[frames[t].idx].isNull
    /\ LET frame == frames[t]
           point == sharedPoints.elems[frame.idx]
           distance == HaversineTable[<<frame.centerLat, frame.centerLon, point.lat,
                                        point.lon, frame.earthRadius>>]
       IN  frames' = [u \in Threads |->
                        [frames[u] EXCEPT
                           !.pointsInCircle = IF InCircle(distance, frame.radius)
                                              THEN Append(frames[u].pointsInCircle, point)
                                              ELSE frames[u].pointsInCircle,
                           !.idx = IF u = t THEN frame.idx + 1 ELSE frames[u].idx]]
    /\ UNCHANGED <<app, javaVars, mapVars, olVars, pageVars, sharedPoints>>

\* lines 325-331 in thread t: the entry is added to the thread's own list when
\* its distance to the centre is at most the radius
ThreadTestPoint(t) ==
    /\ app = "Threads"
    /\ frames[t].pc = "L321"
    /\ frames[t].idx <= Len(sharedPoints.elems)
    /\ ~sharedPoints.elems[frames[t].idx].isNull
    /\ LET frame == frames[t]
           point == sharedPoints.elems[frame.idx]
           distance == HaversineTable[<<frame.centerLat, frame.centerLon, point.lat,
                                        point.lon, frame.earthRadius>>]
       IN  frames' = [frames EXCEPT
                        ![t].pointsInCircle = IF InCircle(distance, frame.radius)
                                              THEN Append(frame.pointsInCircle, point)
                                              ELSE frame.pointsInCircle,
                        ![t].idx = frame.idx + 1]
    /\ UNCHANGED <<app, javaVars, mapVars, olVars, pageVars, sharedPoints>>

\* line 334 in thread t: the list is returned
ThreadReturnList(t) ==
    /\ app = "Threads"
    /\ frames[t].pc = "L321"
    /\ frames[t].idx > Len(sharedPoints.elems)
    /\ frames' = [frames EXCEPT ![t].result = frames[t].pointsInCircle,
                                ![t].pc = "returned"]
    /\ UNCHANGED <<app, javaVars, mapVars, olVars, pageVars, sharedPoints>>

\* the threads start with one array, null or not, that all their calls get
InitThreads ==
    /\ app = "Threads"
    /\ openSidebar = TRUE
    /\ fullView = FALSE
    /\ mounted = FALSE
    /\ location = PageLocation
    /\ pointData = <<>>
    /\ mapInstance = NullMap
    /\ vectorSourceRef = NullSource
    /\ cleanup = "none"
    /\ effectPending = FALSE
    /\ lastClick = "none"
    /\ openAtEntry = TRUE
    /\ sharedPoints \in SharedArrays
    /\ frames = [t \in Threads |-> IdleFrame]
    /\ projection = "EPSG:3857"
    /\ vectorSource = <<>>
    /\ circleQuery = NoQuery
    /\ features = <<>>
    /\ extentQueried = FALSE
    /\ featuresInExtent = <<>>
    /\ mapPoints = pointsData
    /\ filteredPoints = <<>>
    /\ featureGroup = "null"
    /\ groupLayers = {}
    /\ lastEvent = NoEvent
    /\ pc = "idle"
    /\ points = NullArray
    /\ centerLon = Zero
    /\ centerLat = Zero
    /\ radius = Zero
    /\ options = NullOptions
    /\ earthRadius = Zero
    /\ pointsInCircle = <<>>
    /\ idx = 0
    /\ result = <<>>
    /\ exception = "none"

\* the steps of the threads, interleaved in any order
NextThreads ==
    \E t \in Threads :
        \/ /\ frames[t].pc \in {"idle", "returned"}
           /\ \E c \in ThreadCenters, r \in ThreadRadii, o \in ThreadOptions :
                 ThreadCall(t, c[1], c[2], r, o)
        \/ ThreadReturnForNull(t)
        \/ ThreadEnterLoop(t)
        \/ ThreadSkipNull(t)
        \/ ThreadTestPoint(t)
        \/ ThreadReturnList(t)

SpecThreads == InitThreads /\ [][NextThreads]_vars

\* ------------------------------------------------------------------------
\* LayoutWithMap's buttons and MapComponent's effect
\* ------------------------------------------------------------------------
\* the null a point without finite coordinates is mapped to, line 77
NullFeature == [geometry |-> "null", coordinates |-> <<Zero, Zero>>, scale |-> Zero]

\* lines 74-98: the callback of points.map: null or the point's feature
FeatureOrNull[point \in AllPointData] ==
    IF ~HasFiniteCoordinates(point) THEN NullFeature ELSE FeatureTable[point]

\* FeaturesOf without the filter of line 99
FeaturesOfUnfiltered(pts) ==
    [i \in DOMAIN pts |-> FeatureOrNull[pts[i]]]

\* lines 74-99: points.map(...).filter(feature => feature !== null)
FeaturesOf(pts) ==
    LET mapped == [i \in DOMAIN pts |-> FeatureOrNull[pts[i]]]
        notNull(feature) == feature # NullFeature
    IN  SelectSeq(mapped, notNull)

\* lines 62-65 and 106-107: the view's centre and zoom for a location with
\* finite coordinates
ViewOf[loc \in Locations] ==
    Map(CenterTable[loc], Nullish(loc.zoom, Dbl(17, 0)))

\* lines 112-118: the cleanup function, if the previous run returned one,
\* applied to the refs <<mapInstance.current, vectorSourceRef.current>>
Cleanup(pending, map, source) ==
    IF pending = "set" /\ ~map.isNull THEN <<NullMap, NullSource>> ELSE <<map, source>>

\* lines 38-119: one run of the effect with the props loc and pts, container
\* telling whether mapRef.current is set, from the refs <<mapInstance.current,
\* vectorSourceRef.current>>; gives the refs after the run and whether the run
\* returned a cleanup function
RunEffect(loc, pts, container, refs) ==
    IF ~HasFiniteCoordinates(loc) THEN <<refs[1], refs[2], "none">>
    ELSE LET created == container /\ refs[1].isNull
             source  == IF created THEN VectorSource(<<>>) ELSE refs[2]
         IN  << IF created \/ ~refs[1].isNull THEN ViewOf[loc] ELSE refs[1],
                IF ~source.isNull THEN VectorSource(FeaturesOf(pts)) ELSE source,
                "set" >>

\* a render of MapComponent with a location or points prop that is new is
\* committed: React will run the effect (line 119)
Rendered(loc, pts) ==
    /\ location' = loc
    /\ pointData' = pts
    /\ effectPending' = TRUE
    /\ UNCHANGED <<mapInstance, vectorSourceRef, cleanup>>

\* MapComponent is mounted with the props loc and pts: its container is
\* attached to mapRef and the effect is to run for the first time
Mount(loc, pts) ==
    /\ app = "LayoutWithMap"
    /\ ~mounted
    /\ ~effectPending
    /\ mounted' = TRUE
    /\ Rendered(loc, pts)
    /\ UNCHANGED <<app, javaVars, mapVars, olVars, threadVars, openSidebar, fullView, lastClick,
                   openAtEntry>>

\* a parent renders MapComponent with a new location or points prop
Rerender(loc, pts) ==
    /\ app = "LayoutWithMap"
    /\ mounted
    /\ ~effectPending
    /\ Rendered(loc, pts)
    /\ UNCHANGED <<app, javaVars, mapVars, olVars, threadVars, openSidebar, fullView, lastClick,
                   openAtEntry, mounted>>

\* lines 38-119: React runs the effect of the committed render: first the
\* cleanup the previous run returned, then the effect
Effect ==
    /\ app = "LayoutWithMap"
    /\ effectPending
    /\ LET after == RunEffect(location, pointData, mounted,
                              Cleanup(cleanup, mapInstance, vectorSourceRef))
       IN  /\ mapInstance' = after[1]
           /\ vectorSourceRef' = after[2]
           /\ cleanup' = after[3]
    /\ effectPending' = FALSE
    /\ UNCHANGED <<app, javaVars, mapVars, olVars, threadVars, openSidebar, fullView, lastClick,
                   openAtEntry,
                   mounted, location, pointData>>

\* MapComponent is unmounted: React runs the cleanup of the latest run
Unmount ==
    /\ app = "LayoutWithMap"
    /\ mounted
    /\ ~effectPending
    /\ mounted' = FALSE
    /\ LET after == Cleanup(cleanup, mapInstance, vectorSourceRef)
       IN  /\ mapInstance' = after[1]
           /\ vectorSourceRef' = after[2]
    /\ cleanup' = "none"
    /\ UNCHANGED <<app, javaVars, mapVars, olVars, threadVars, openSidebar, fullView, lastClick,
                   openAtEntry,
                   location, pointData, effectPending>>

\* LayoutWithMap renders again after a state change: lines 634-644 make a new
\* location and a new examplePoints, which reach a mounted MapComponent as
\* new props
PageRendered ==
    IF mounted THEN Rendered(PageLocation, examplePoints)
    ELSE UNCHANGED <<location, pointData, mapInstance, vectorSourceRef, cleanup,
                     effectPending>>

\* ClickArrow with the arrow handle shown in full view too
ClickArrowAlways ==
    /\ app = "LayoutWithMap"
    /\ ~effectPending
    /\ lastClick' = "arrow"
    /\ openAtEntry' = openAtEntry
    /\ openSidebar' = ~openSidebar
    /\ PageRendered
    /\ UNCHANGED <<app, javaVars, mapVars, olVars, threadVars, fullView, mounted>>

\* lines 679-708: a click on the arrow of the handle, which is shown only
\* when fullView is false
ClickArrow ==
    /\ app = "LayoutWithMap"
    /\ ~effectPending
    /\ ~fullView
    /\ openSidebar' = ~openSidebar
    /\ lastClick' = "arrow"
    /\ openAtEntry' = openAtEntry
    /\ PageRendered
    /\ UNCHANGED <<app, javaVars, mapVars, olVars, threadVars, fullView, mounted>>

\* ClickFullView without line 737: the sidebar state is left as it is
ClickFullViewKeepsSidebar ==
    /\ app = "LayoutWithMap"
    /\ ~effectPending
    /\ lastClick' = "fullView"
    /\ openAtEntry' = IF ~fullView THEN openSidebar ELSE openAtEntry
    /\ openSidebar' = openSidebar
    /\ fullView' = ~fullView
    /\ PageRendered
    /\ UNCHANGED <<app, javaVars, mapVars, olVars, threadVars, mounted>>

\* lines 734-742: a click on the full-view button
ClickFullView ==
    /\ app = "LayoutWithMap"
    /\ ~effectPending
    /\ lastClick' = "fullView"
    /\ openAtEntry' = IF ~fullView THEN openSidebar ELSE openAtEntry
    /\ openSidebar' = IF ~fullView THEN TRUE ELSE openSidebar
    /\ fullView' = ~fullView
    /\ PageRendered
    /\ UNCHANGED <<app, javaVars, mapVars, olVars, threadVars, mounted>>

\* the page as LayoutWithMap first renders it, MapComponent not yet mounted
InitPage ==
    /\ app = "LayoutWithMap"
    /\ openSidebar = TRUE
    /\ fullView = FALSE
    /\ mounted = FALSE
    /\ location = PageLocation
    /\ pointData = <<>>
    /\ mapInstance = NullMap
    /\ vectorSourceRef = NullSource
    /\ cleanup = "none"
    /\ effectPending = FALSE
    /\ lastClick = "none"
    /\ openAtEntry = TRUE
    /\ sharedPoints = NullArray
    /\ frames = [t \in Threads |-> IdleFrame]
    /\ projection = "EPSG:3857"
    /\ vectorSource = <<>>
    /\ circleQuery = NoQuery
    /\ features = <<>>
    /\ extentQueried = FALSE
    /\ featuresInExtent = <<>>
    /\ mapPoints = pointsData
    /\ filteredPoints = <<>>
    /\ featureGroup = "null"
    /\ groupLayers = {}
    /\ lastEvent = NoEvent
    /\ pc = "idle"
    /\ points = NullArray
    /\ centerLon = Zero
    /\ centerLat = Zero
    /\ radius = Zero
    /\ options = NullOptions
    /\ earthRadius = Zero
    /\ pointsInCircle = <<>>
    /\ idx = 0
    /\ result = <<>>
    /\ exception = "none"

\* a render of MapComponent changes the location prop or the points prop
NextPage ==
    \/ /\ ~mounted /\ ~effectPending
       /\ \E loc \in Locations, pts \in PointDataProps : Mount(loc, pts)
    \/ /\ mounted /\ ~effectPending
       /\ \E loc \in Locations : Rerender(loc, pointData)
    \/ /\ mounted /\ ~effectPending
       /\ \E pts \in PointDataProps : Rerender(location, pts)
    \/ Effect
    \/ Unmount
    \/ ClickArrow
    \/ ClickFullView

SpecPage == InitPage /\ [][NextPage]_vars

\* ------------------------------------------------------------------------
\* properties
\* ------------------------------------------------------------------------
\* a call of findPointsInCircle is over
Returned == app = "GeoUtils" /\ pc = "returned"

\* the points of the tests, and malformed ones
P00   == Point(Deg0, Deg0)
P01   == Point(Deg01, Deg01)
P11   == Point(Deg1, Deg1)
P181  == Point(Deg181, Deg0)
PNaN  == Point(NaN, Deg0)
PInf  == Point(Deg0, PosInf)

\* the haversine distance from the call's centre to p, on the call's sphere
DistanceOf(p) == HaversineTable[<<centerLat, centerLon, p.lat, p.lon, earthRadius>>]

\* s without its null entries
NonNull(s) == LET present(p) == ~p.isNull IN SelectSeq(s, present)

\* the entries of s at most the call's radius from its centre, in order
Within(s) == LET near(p) == leq[DistanceOf(p), radius] IN SelectSeq(s, near)

\* the number of entries of s equal to p
Count(s, p) == Cardinality({i \in DOMAIN s : s[i] = p})

\* r[i..] can be read off s[j..] from left to right
RECURSIVE Embeds(_, _, _, _)
Embeds(r, i, s, j) ==
    IF i > Len(r) THEN TRUE
    ELSE IF j > Len(s) THEN FALSE
    ELSE IF r[i] = s[j] THEN Embeds(r, i + 1, s, j + 1)
    ELSE Embeds(r, i, s, j + 1)

\* r is a subsequence of s: its entries are entries of s, in the order of s
IsSubsequence(r, s) == Embeds(r, 1, s, 1)

\* C1: a call with a null array or an empty array returns the empty list and
\* raises no error, whatever the centre, the radius and the options.
C1_NullOrEmptyGivesEmpty ==
    Returned /\ (points.isNull \/ points.elems = <<>>)
        => result = <<>> /\ exception = "none"

C1_Witness ==
    /\ Returned
    /\ points.isNull
    /\ options.isNull
    /\ result = <<>>
    /\ exception = "none"

\* C2: null entries are skipped: the call raises no error, its result is the
\* filter's result on the array without its null entries, and no entry of the
\* result is null.
C2_NullEntriesSkipped ==
    Returned =>
        /\ exception = "none"
        /\ result = Within(NonNull(points.elems))
        /\ \A i \in DOMAIN result : ~result[i].isNull

C2_Witness ==
    /\ Returned
    /\ points.elems = <<P00, NullPoint, P01>>
    /\ result = <<P00, P01>>

\* C3: the result is a subsequence of the input, for the list
\* findPointsInCircle returns and for the filteredPoints onCreated sets: every
\* entry is an input entry and the input's order is kept.
C3_StableSubsequence ==
    /\ Returned => IsSubsequence(result, points.elems)
    /\ IsSubsequence(filteredPoints, mapPoints)

C3_Witness ==
    /\ app = "MapInteraction"
    /\ lastEvent.type = "draw:created"
    /\ filteredPoints = <<pointsData[1], pointsData[2], pointsData[4]>>

\* C4: no deduplication: a point inside the circle occurs in the result as
\* often as it occurs in the input array.
C4_NoDeduplication ==
    Returned =>
        \A i \in DOMAIN points.elems :
            LET p == points.elems[i]
            IN  ~p.isNull /\ leq[DistanceOf(p), radius]
                    => Count(result, p) = Count(points.elems, p)

C4_Witness ==
    /\ Returned
    /\ points.elems = <<P00, P01, P00>>
    /\ result = <<P00, P01, P00>>

C7_ZeroRadiusGivesEmpty ==
    /\ Returned
    /\ points.elems = <<P00, P01>>
    /\ centerLon = Deg0 /\ centerLat = Deg0
    /\ radius = Zero
    /\ earthRadius = DefaultEarthRadius
    => result = <<>>

\* C8 as claimed: a call with a negative radius ends with an InvalidGeometry
\* error and returns no list.
C8_NegativeRadiusFails ==
    Returned /\ lt[radius, Zero] => exception = "InvalidGeometry"

\* C8: a call with a negative radius raises no error and returns the empty
\* list.
C8_NegativeRadiusGivesEmpty ==
    Returned /\ lt[radius, Zero] => exception = "none" /\ result = <<>>

C8_Witness ==
    /\ Returned
    /\ lt[radius, Zero]
    /\ points.elems = <<P00, P01>>
    /\ centerLon = Deg0 /\ centerLat = Deg0
    /\ result = <<>>
    /\ exception = "none"

\* C9 as claimed: a call whose centre is non-finite or out of range ends with
\* an InvalidCoordinate error and returns no list.
C9_BadCentreFails ==
    Returned /\ ~InRange(centerLon, centerLat) => exception = "InvalidCoordinate"

\* C9: a call whose centre is non-finite or out of range raises no error: with
\* a non-finite centre coordinate it returns the empty list, with a finite
\* centre out of range it returns, as for any centre, the non-null points at
\* most the radius away.
C9_BadCentreFiltersAsUsual ==
    Returned /\ ~InRange(centerLon, centerLat) =>
        /\ exception = "none"
        /\ ~(isFinite(centerLon) /\ isFinite(centerLat)) => result = <<>>
        /\ isFinite(centerLon) /\ isFinite(centerLat)
              => result = Within(NonNull(points.elems))

C9_Witness ==
    /\ Returned
    /\ centerLon = Deg181 /\ centerLat = Deg0
    /\ radius = Zero
    /\ points.elems = <<P00, P181>>
    /\ result = <<P181>>
    /\ exception = "none"

\* C10 as claimed: input points with non-finite or out-of-range coordinates
\* never appear in the result and do not abort the call.
C10_BadPointsSkipped ==
    Returned =>
        /\ exception = "none"
        /\ \A i \in DOMAIN result : InRange(result[i].lon, result[i].lat)

\* C10: no input point aborts the call; a point with a non-finite coordinate
\* never appears in the result; a point with finite coordinates out of range
\* is not skipped: it is in the result exactly when its computed distance to
\* the centre is at most the radius.
C10_NonFinitePointsSkipped ==
    Returned =>
        /\ exception = "none"
        /\ \A i \in DOMAIN result :
              isFinite(result[i].lon) /\ isFinite(result[i].lat)
        /\ \A i \in DOMAIN points.elems :
              LET p == points.elems[i]
              IN  /\ ~p.isNull
                  /\ isFinite(p.lon) /\ isFinite(p.lat)
                  /\ ~InRange(p.lon, p.lat)
                  => (Count(result, p) > 0 <=> leq[DistanceOf(p), radius])

C10_Witness ==
    /\ Returned
    /\ centerLon = Deg180 /\ centerLat = Deg0
    /\ radius = Dbl(112000, 0)
    /\ points.elems = <<PNaN, P181, PInf>>
    /\ result = <<P181>>
    /\ exception = "none"

\* C11: the sphere radius of a call is options.earthRadius when options is not
\* null and its earthRadius is above 0, and 6371000 otherwise (null options,
\* an earthRadius of 0, a negative earthRadius); the returned list is the
\* distance filter on that sphere.
C11_SphereRadiusResolution ==
    Returned =>
        /\ options.isNull => earthRadius = Dbl(6371000, 0)
        /\ ~options.isNull /\ options.earthRadius.k = "fin" /\ options.earthRadius.m > 0
              => earthRadius = options.earthRadius
        /\ ~options.isNull /\ options.earthRadius.k = "fin" /\ options.earthRadius.m <= 0
              => earthRadius = Dbl(6371000, 0)
        /\ result = Within(NonNull(points.elems))

C11_Witness ==
    /\ Returned
    /\ options = GeoOptions(Dbl(-6371000, 0))
    /\ earthRadius = Dbl(6371000, 0)
    /\ points.elems = <<P00, P01, P11>>
    /\ centerLon = Deg0 /\ centerLat = Deg0
    /\ radius = Dbl(100000, 0)
    /\ result = <<P00, P01>>

\* C12: the query never changes its input: from the call to the return of
\* findPointsInCircle no step changes the points array (its length, its
\* entries, their coordinates), and no step of MapInteraction, onCreated's
\* filter included, changes the points prop.
C12_InputNeverMutated ==
    [][/\ app = "GeoUtils" /\ pc \in {"L317", "L321"} => points' = points
       /\ mapPoints' = mapPoints]_vars

C12_Witness ==
    /\ Returned
    /\ points = Array(<<P11, NullPoint, P00>>)
    /\ centerLon = Deg0 /\ centerLat = Deg0
    /\ radius = Dbl(100000, 0)
    /\ result = <<P00>>

\* C13: prefiltering by the circle's extent never changes the result: the
\* features found among getFeaturesInExtent(circle.getExtent()) are the
\* features found among all the features of the source.
C13_PrefilterKeepsResult ==
    extentQueried => featuresInExtent = features

C13_Witness ==
    /\ extentQueried
    /\ projection = "EPSG:3857"
    /\ circleQuery.projection = "EPSG:3857"
    /\ circleQuery.radius = Dbl(100000, 0)
    /\ circleQuery.sides = 8
    /\ Len(vectorSource) = 3
    /\ vectorSource[1] = PointFeature(fromLonLat(<<Dbl(-3, -1), Dbl(-3, -1)>>, "EPSG:3857"))
    /\ vectorSource[2] = PointFeature(fromLonLat(<<Dbl(8, -1), Dbl(8, -1)>>, "EPSG:3857"))
    /\ vectorSource[3] = PointFeature(fromLonLat(<<Dbl(2, 0), Dbl(2, 0)>>, "EPSG:3857"))
    /\ getFeaturesInExtent[vectorSource, ExtentTable[circleQuery]]
          = <<vectorSource[1], vectorSource[2]>>
    /\ featuresInExtent = <<vectorSource[1]>>

\* C15: for the points (0, 0), (1, 1), (0.1, 0.1), the centre (0, 0), a radius
\* of 100000 m and a sphere radius of 6371000 m the call returns exactly
\* (0, 0) and (0.1, 0.1); (1, 1), about 157 km away, is excluded.
C15_ValidPointsScenario ==
    /\ Returned
    /\ points = Array(<<P00, P11, P01>>)
    /\ centerLon = Deg0 /\ centerLat = Deg0
    /\ radius = Dbl(100000, 0)
    /\ earthRadius = Dbl(6371000, 0)
    => /\ result = <<P00, P01>>
       /\ exception = "none"
       /\ gt[DistanceOf(P11), Dbl(157000, 0)]
       /\ lt[DistanceOf(P11), Dbl(158000, 0)]

C15_Witness ==
    /\ Returned
    /\ points = Array(<<P00, P11, P01>>)
    /\ centerLon = Deg0 /\ centerLat = Deg0
    /\ radius = Dbl(100000, 0)
    /\ options = GeoOptions(Dbl(6371000, 0))
    /\ earthRadius = Dbl(6371000, 0)
    /\ result = <<P00, P01>>

\* C16 as claimed: with the sphere radius 6378137 m, the centre (0, 0) and a
\* radius of 112000 m the call on [(0, 0), (1, 1)] returns both points: the
\* result has size 2.
C16_CustomRadiusIncludesOneOne ==
    /\ Returned
    /\ points = Array(<<P00, P11>>)
    /\ centerLon = Deg0 /\ centerLat = Deg0
    /\ radius = Dbl(112000, 0)
    /\ options = GeoOptions(Dbl(6378137, 0))
    => Len(result) = 2 /\ result = <<P00, P11>>

\* C17 as claimed: the haversine distance line 328 computes between (lat 0,
\* lon 0) and (lat 1, lon 1) on the sphere of radius 6378137 m is 111310 m,
\* within 10 m.
C17_HaversineOfOneDegree ==
    /\ app = "GeoUtils"
    /\ pc \in {"L321", "returned"}
    /\ centerLon = Deg0 /\ centerLat = Deg0
    /\ earthRadius = Dbl(6378137, 0)
    /\ ~points.isNull
    /\ idx > 1
    /\ points.elems[1] = P11
    => /\ leq[Dbl(111300, 0), DistanceOf(P11)]
       /\ leq[DistanceOf(P11), Dbl(111320, 0)]

\* C20: after a rectangle is drawn, the filtered points are exactly the
\* points whose latitude lies between the rectangle's southern and northern
\* bounds and whose longitude lies between its western and eastern bounds,
\* the bounds included: points on an edge or a corner are kept.
C20_RectangleInclusive ==
    /\ app = "MapInteraction"
    /\ lastEvent.type = "draw:created"
    /\ lastEvent.layer.layerType = "rectangle"
    => LET sw == lastEvent.layer.bounds.sw
           ne == lastEvent.layer.bounds.ne
           within(point) == /\ leq[sw.lat, point.lat] /\ leq[point.lat, ne.lat]
                            /\ leq[sw.lng, point.lng] /\ leq[point.lng, ne.lng]
       IN  filteredPoints = SelectSeq(mapPoints, within)

C20_Witness ==
    /\ app = "MapInteraction"
    /\ lastEvent.type = "draw:created"
    /\ lastEvent.layer =
          RectangleLayer(LatLng(Dbl(515, -1), Dbl(-1, -1)), LatLng(Dbl(51505, -3), Dbl(-5, -2)))
    /\ filteredPoints = <<pointsData[1], pointsData[3]>>

\* two calls on the shared array are over: the one of thread t and the one of
\* thread u
BothReturned(t, u) ==
    /\ app = "Threads"
    /\ frames[t].pc = "returned"
    /\ frames[u].pc = "returned"

\* C14: the result is monotone in the radius: of two calls on the same array
\* with the same centre and the same sphere radius, the one with the smaller
\* (or equal) radius returns only points the other returns too, in the same
\* order.
C14_MonotoneInRadius ==
    \A t \in Threads, u \in Threads :
        /\ BothReturned(t, u)
        /\ frames[t].centerLon = frames[u].centerLon
        /\ frames[t].centerLat = frames[u].centerLat
        /\ frames[t].earthRadius = frames[u].earthRadius
        /\ leq[frames[t].radius, frames[u].radius]
        => IsSubsequence(frames[t].result, frames[u].result)

C14_Witness ==
    /\ BothReturned("t1", "t2")
    /\ sharedPoints = Array(<<P01, P00>>)
    /\ frames["t1"].centerLon = Deg0 /\ frames["t2"].centerLon = Deg0
    /\ frames["t1"].earthRadius = frames["t2"].earthRadius
    /\ frames["t1"].radius = Zero
    /\ frames["t2"].radius = Dbl(112000, 0)
    /\ frames["t1"].result = <<P00>>
    /\ frames["t2"].result = <<P01, P00>>

\* C18: the call is deterministic and keeps nothing from one call to the
\* next: two calls on the same array with equal centre, radius and options
\* return equal lists, whatever calls the threads made before them and
\* whatever steps of other calls ran in between.
C18_EqualCallsEqualResults ==
    \A t \in Threads, u \in Threads :
        /\ BothReturned(t, u)
        /\ frames[t].centerLon = frames[u].centerLon
        /\ frames[t].centerLat = frames[u].centerLat
        /\ frames[t].radius = frames[u].radius
        /\ frames[t].options = frames[u].options
        => frames[t].result = frames[u].result

C18_Witness ==
    /\ BothReturned("t1", "t2")
    /\ sharedPoints = Array(<<P181, P00>>)
    /\ frames["t1"].centerLon = Deg180 /\ frames["t2"].centerLon = Deg180
    /\ frames["t1"].radius = Dbl(112000, 0) /\ frames["t2"].radius = Dbl(112000, 0)
    /\ frames["t1"].options = GeoOptions(Wgs84Radius)
    /\ frames["t2"].options = GeoOptions(Wgs84Radius)
    /\ frames["t1"].result = <<P181>>
    /\ frames["t2"].result = <<P181>>

\* the list a call with the arguments of frame has built, when it runs alone,
\* from the first n entries of the shared array: the non-null entries at most
\* the radius from the centre, in order
AloneUpTo(frame, n) ==
    LET kept(p) ==
            /\ ~p.isNull
            /\ leq[HaversineTable[<<frame.centerLat, frame.centerLon, p.lat, p.lon,
                                    frame.earthRadius>>], frame.radius]
    IN  SelectSeq(SubSeq(sharedPoints.elems, 1, n), kept)

\* C19: calls running concurrently on one array do not disturb each other:
\* under every interleaving of their steps, the list of each call holds, at
\* every moment, what the call would have put there running alone, and the
\* list it returns is the one it would return running alone.
C19_ConcurrentCallsIsolated ==
    app = "Threads" =>
        \A t \in Threads :
            /\ frames[t].pc = "L317" => frames[t].pointsInCircle = <<>>
            /\ frames[t].pc = "L321"
                  => frames[t].pointsInCircle = AloneUpTo(frames[t], frames[t].idx - 1)
            /\ frames[t].pc = "returned"
                  => /\ frames[t].result = AloneUpTo(frames[t], Len(sharedPoints.elems))
                     /\ frames[t].result = frames[t].pointsInCircle

C19_Witness ==
    /\ app = "Threads"
    /\ sharedPoints = Array(<<P00, P01>>)
    /\ frames["t1"].pc = "L321" /\ frames["t2"].pc = "L321"
    /\ frames["t1"].centerLon = Deg0 /\ frames["t2"].centerLon = Deg0
    /\ frames["t1"].radius = Zero
    /\ frames["t2"].radius = Dbl(112000, 0)
    /\ frames["t1"].idx = 2 /\ frames["t1"].pointsInCircle = <<P00>>
    /\ frames["t2"].idx = 3 /\ frames["t2"].pointsInCircle = <<P00, P01>>

\* the points of the prop inside the layer: for a circle those at most its
\* radius from its centre, for a rectangle those within its bounds, for any
\* other layer none
PointsInside(layer) ==
    LET inCircle(point) ==
            leq[DistanceTable[<<layer.latlng, LatLng(point.lat, point.lng)>>], layer.mRadius]
        inBounds(point) ==
            /\ leq[layer.bounds.sw.lat, point.lat] /\ leq[point.lat, layer.bounds.ne.lat]
            /\ leq[layer.bounds.sw.lng, point.lng] /\ leq[point.lng, layer.bounds.ne.lng]
    IN  CASE layer.layerType = "circle"    -> SelectSeq(mapPoints, inCircle)
          [] layer.layerType = "rectangle" -> SelectSeq(mapPoints, inBounds)
          [] OTHER                         -> <<>>

\* C21: the points shown are the outcome of the latest draw event only: none
\* before the first event, the points inside the latest created circle or
\* rectangle (none for a layer of another type), none after a deletion;
\* the points of earlier shapes are not kept.
C21_LatestEventOnly ==
    app = "MapInteraction" =>
        /\ lastEvent.type = "none" => filteredPoints = <<>>
        /\ lastEvent.type = "draw:deleted" => filteredPoints = <<>>
        /\ lastEvent.type = "draw:created" => filteredPoints = PointsInside(lastEvent.layer)

C21_Witness ==
    /\ app = "MapInteraction"
    /\ lastEvent.type = "draw:created"
    /\ lastEvent.layer = CircleLayer(LatLng(pointsData[1].lat, pointsData[1].lng), Zero)
    /\ RectangleLayer(LatLng(Dbl(51505, -3), Dbl(-9, -2)), LatLng(Dbl(5152, -2), Dbl(-7, -2)))
          \in groupLayers
    /\ MarkerLayer \in groupLayers
    /\ filteredPoints = <<pointsData[1]>>

\* C22: a draw:created event handled while the feature group reference is set
\* leaves exactly one layer in the feature group, the layer just created; the
\* shapes drawn before are removed.
C22_SingleLayerAfterCreated ==
    [][/\ app = "MapInteraction"
       /\ featureGroup = "set"
       /\ lastEvent'.type = "draw:created"
       => /\ groupLayers' = {lastEvent'.layer}
          /\ Cardinality(groupLayers') = 1]_vars

C22_Witness ==
    /\ app = "MapInteraction"
    /\ featureGroup = "set"
    /\ lastEvent.type = "draw:created"
    /\ lastEvent.layer =
          RectangleLayer(LatLng(Dbl(515, -1), Dbl(-1, -1)), LatLng(Dbl(5151, -2), Dbl(-8, -2)))
    /\ groupLayers = {lastEvent.layer}
    /\ filteredPoints = <<pointsData[1], pointsData[2], pointsData[3]>>

\* C23: in LayoutWithMap, started with the sidebar open and full view off,
\* full view implies an open sidebar in every reachable state; the arrow of
\* the handle cannot be clicked while full view is on, and no step taken in
\* full view changes openSidebar
C23_FullViewImpliesSidebarOpen ==
    /\ [](app = "LayoutWithMap" /\ fullView => openSidebar)
    /\ [][app = "LayoutWithMap" /\ fullView =>
            /\ openSidebar' = openSidebar
            /\ lastClick' # "arrow"]_vars

\* full view entered from a collapsed sidebar, the map re-rendered
C23_Witness ==
    /\ app = "LayoutWithMap"
    /\ fullView
    /\ openSidebar
    /\ ~openAtEntry
    /\ lastClick = "fullView"
    /\ mounted
    /\ ~effectPending

\* C24: a click on the full-view button that leaves full view lands with the
\* sidebar open, the left column calc(50% - 20px) wide and the right one 50%,
\* also when the sidebar was collapsed when full view was entered; in full
\* view the left column is 0% wide and the right one 100%
C24_LeavingFullViewOpensSidebar ==
    app = "LayoutWithMap" =>
        /\ fullView =>
              /\ leftWidth(fullView, openSidebar) = "0%"
              /\ rightWidth(fullView, openSidebar) = "100%"
        /\ ~fullView /\ lastClick = "fullView" =>
              /\ openSidebar
              /\ leftWidth(fullView, openSidebar) = "calc(50% - 20px)"
              /\ rightWidth(fullView, openSidebar) = "50%"

\* full view was entered from a collapsed sidebar and has just been left
C24_Witness ==
    /\ app = "LayoutWithMap"
    /\ ~fullView
    /\ lastClick = "fullView"
    /\ ~openAtEntry
    /\ openSidebar
    /\ leftWidth(fullView, openSidebar) = "calc(50% - 20px)"
    /\ rightWidth(fullView, openSidebar) = "50%"

\* the features the claim asks for: one for each point of pts with a finite
\* latitude and longitude, in the order of pts
ExpectedFeatures(pts) ==
    LET finite == SelectSeq(pts, HasFiniteCoordinates)
    IN  [i \in DOMAIN finite |-> FeatureTable[finite[i]]]

\* C25: once the effect of the mounted OpenLayers MapComponent has run for a
\* location with finite coordinates, there is a map and the vector source
\* holds one feature for each point with finite coordinates, in the order of
\* the points and nothing else; once it has run for a location that is not
\* finite there is no map and no feature; and after the cleanup of an unmount
\* mapInstance and vectorSourceRef are both null
C25_SourceHoldsFinitePoints ==
    app = "LayoutWithMap" /\ ~effectPending =>
        /\ mounted /\ HasFiniteCoordinates(location) =>
              /\ ~mapInstance.isNull
              /\ vectorSourceRef = VectorSource(ExpectedFeatures(pointData))
              /\ cleanup = "set"
        /\ mounted /\ ~HasFiniteCoordinates(location) =>
              /\ mapInstance = NullMap
              /\ vectorSourceRef = NullSource
              /\ cleanup = "none"
        /\ ~mounted =>
              /\ mapInstance = NullMap
              /\ vectorSourceRef = NullSource

\* the effect has run for a point with a NaN latitude followed by a point with
\* finite coordinates: the source holds the feature of the second point alone
C25_Witness ==
    /\ app = "LayoutWithMap"
    /\ mounted
    /\ ~effectPending
    /\ location = Location(Dbl(3238, -2), Dbl(-8631, -2), Undefined)
    /\ pointData = <<PointData(NaN, Dbl(-8631, -2), Dbl(32, 0)), examplePoints[1]>>
    /\ ~mapInstance.isNull
    /\ mapInstance.zoom = Dbl(17, 0)
    /\ Len(vectorSourceRef.features) = 1
    /\ vectorSourceRef.features[1] = FeatureOfPoint(examplePoints[1])
====
